---- MODULE Spec2Model ----
(***************************************************************************)
(* Per-cell HARQ process manager of the scheduler                          *)
(* (lib/scheduler/ue_scheduling/cell_harq_manager.cpp).                    *)
(*                                                                         *)
(* The two variables dl and ul are the two cell_harq_repository instances  *)
(* of cell_harq_manager.  Every operation of the repository is an operator *)
(* from a repository value to the repository value the C++ code leaves     *)
(* behind; the actions are the public entry points of cell_harq_manager,   *)
(* unique_ue_harq_entity and the process views.                            *)
(***************************************************************************)
EXTENDS Integers, Sequences, FiniteSets, TLC

\* ------------------------------------------------------------------ bounds
\* max_ues given to the constructor of cell_harq_manager.
MAX_UES == 2
\* Number of HARQ processes per terminal and direction (harqs.resize(MAX_NOF_HARQS * max_ues)).
MAX_NOF_HARQS == 2
\* Number of slot_indication calls of a run.
NofSlots == 4
\* Number of allocation calls (alloc_dl_harq, alloc_ul_harq) of a run.
MaxAllocs == 2
\* Number of increment_pucch_counter calls of a run.
MaxPucch == 2
\* Number of cancel_retxs calls of a run.
MaxCancels == 1
\* Number of slot_indication calls of a run that follows the acknowledgment occasions.
NofSlotsFlag == 9
\* Number of increment_pucch_counter calls of such a run.
MaxPucchFlag == 3
\* Number of unique_ue_harq_entity objects of a run.
MaxHandles == 3
\* Number of add_ue calls of a run of the handle operations.
MaxAdds == 2
\* Capacity of the circular buffer of the blocking queue (circ_buffer.max_size()).
QueueSize == 2
\* Number of threads that call the blocking queue.
NofThreads == 3
\* Number of calls of the blocking queue made in a run.
MaxCalls == 4
\* Length of the longest iterator range given to a range push or a range pop.
MaxRange == 2
\* Number of slots of a run that goes once round the whole ring.
NofSlotsWrap == 42
\* Maximum number of allocation calls of a run that follows the NDI of a process.
MaxAllocsNdi == 3
\* Number of slots of a run in which a deadline that was left out comes round again.
NofSlotsSkip == 45

\* --------------------------------------------------------------- constants
\* const unsigned RING_SIZE = 40;
RING_SIZE == 40

\* Shortened wait set by a non-final dl_ack_info.
SHORT_ACK_TIMEOUT_DTX == 8

\* No allocation was given the process_id since its terminal was admitted.
NoNdi == {}

\* Sentinels.
INVALID_HARQ_REF_INDEX == 0 - 1
INVALID_DU_UE_INDEX == 0 - 1
INVALID_HARQ_ID == 0 - 1
NoSlot == 0 - 1
nullopt == 0 - 1
nullptr == 0 - 1

\* The first slot the cell is run at: two slots before the ring wraps.
FirstSlot == RING_SIZE - 2
LastSlot == FirstSlot + NofSlots - 1

\* ------------------------------------------------------------------ inputs
UeIdx == 0 .. (MAX_UES - 1)
HarqIds == 0 .. (MAX_NOF_HARQS - 1)
PoolSize == MAX_NOF_HARQS * MAX_UES
RefIdx == 0 .. (PoolSize - 1)
Buckets == 0 .. (RING_SIZE - 1)
\* mac_harq_ack_report_status
AckValues == {"ack", "nack", "dtx"}

VARIABLES
  max_ack_wait_in_slots,  \* cell_harq_repository::max_ack_wait_in_slots (both repositories)
  last_sl_tx,             \* cell_harq_manager::last_sl_tx
  dl,                     \* cell_harq_manager::dl
  ul,                     \* cell_harq_manager::ul
  ue_handle,              \* per terminal: a unique_ue_harq_entity with cell_harq_mgr != nullptr exists
  notifs,                 \* calls of harq_timeout_notifier::on_harq_timeout made by the last call
  reports,                \* per downlink record: the reports handled in its acknowledgment cycle
  reserved,               \* per terminal: the numbers of processes given to its add_ue
  nof_allocs,             \* allocation calls made so far
  nof_pucch,              \* increment_pucch_counter calls made so far
  nof_cancels,            \* cancel_retxs calls made so far
  handles,                \* the unique_ue_harq_entity objects: lifetime, cell_harq_mgr != nullptr, ue_index
  nof_add_ue,             \* per terminal: add_ue calls made so far
  nof_destroy_ue,         \* per terminal: destroy_ue calls made so far
  queue,                  \* a base_blocking_queue: circ_buffer, active, nof_waiting, cvar_empty, cvar_full
  threads,                \* per thread: its call of the blocking queue and the position in it
  nof_calls,              \* calls of the blocking queue made so far
  last_ndi                \* per direction, terminal and process_id: the NDI of its latest allocation

vars == <<max_ack_wait_in_slots, last_sl_tx, dl, ul, ue_handle, notifs, reports, reserved,
          nof_allocs, nof_pucch, nof_cancels, handles, nof_add_ue, nof_destroy_ue,
          queue, threads, nof_calls, last_ndi>>

hvars == <<handles, nof_add_ue, nof_destroy_ue>>

qvars == <<queue, threads, nof_calls>>

harqvars == <<max_ack_wait_in_slots, last_sl_tx, dl, ul, ue_handle, notifs, reports, reserved,
              nof_allocs, nof_pucch, nof_cancels, handles, nof_add_ue, nof_destroy_ue,
              last_ndi>>

counters == <<nof_allocs, nof_pucch, nof_cancels>>

\* -------------------------------------------------- base_blocking_queue
Threads == 1 .. NofThreads

\* The values pushed.
Elems == 1 .. MaxRange

\* The iterator ranges pushed: the values 1 to n in order, and one value alone.
Ranges == {[k \in 1 .. n |-> k] : n \in {1, MaxRange}}

\* The queue after construction. gauge stands for the two callables: push_func
\* adds one to it and pop_func takes one from it.
base_blocking_queue ==
  [circ_buffer |-> <<>>, active |-> TRUE, nof_waiting |-> 0,
   cvar_empty |-> {}, cvar_full |-> {}, gauge |-> 0]

\* A thread that has not called the queue. op and block_mode name the call,
\* items is the rest of the range to push, room the rest of the range to pop
\* into, out the values popped, ok and count the values returned.
NoCall ==
  [pc |-> "idle", op |-> "none", block_mode |-> FALSE, items |-> <<>>, room |-> 0,
   out |-> <<>>, ok |-> FALSE, count |-> 0]

\* ------------------------------------------------------------ slot_point
to_uint(sl) == sl

\* ------------------------------------------- intrusive_double_linked_list
push_front(list, x) == <<x>> \o list

pop(list, x) == SelectSeq(list, LAMBDA y : y # x)

\* std::vector push_back / back / pop_back
push_back(v, x) == Append(v, x)

back(v) == v[Len(v)]

pop_back(v) == SubSeq(v, 1, Len(v) - 1)

SeqToSet(s) == {s[i] : i \in 1 .. Len(s)}

\* ---------------------------------------------------- harq_process_impl
EmptyHarq ==
  [ue_idx |-> INVALID_DU_UE_INDEX, h_id |-> INVALID_HARQ_ID, status |-> "empty",
   slot_tx |-> NoSlot, slot_ack |-> NoSlot, slot_ack_timeout |-> NoSlot,
   nof_retxs |-> 0, max_nof_harq_retxs |-> 0, ndi |-> FALSE,
   ack_on_timeout |-> FALSE, retxs_cancelled |-> FALSE,
   harq_bit_idx |-> 0, pucch_ack_to_receive |-> 0, chosen_ack |-> "dtx",
   last_pucch_snr |-> nullopt, tbs_bytes |-> 0]

\* ------------------------------------------------- cell_harq_repository
\* The repository after its constructor.
cell_harq_repository ==
  [harqs |-> [i \in RefIdx |-> EmptyHarq],
   free_harqs |-> [i \in 1 .. PoolSize |-> PoolSize - (i - 1) - 1],
   ues |-> [u \in UeIdx |->
             [free_harq_ids |-> <<>>,
              harqs |-> [h \in HarqIds |-> INVALID_HARQ_REF_INDEX]]],
   harq_timeout_wheel |-> [b \in Buckets |-> <<>>],
   harq_pending_retx_list |-> <<>>]

wheel_idx(sl) == to_uint(sl) % RING_SIZE

\* alloc_harq that leaves the process_id on the terminal's free list.
alloc_harq_keeps_id(r, ue_idx, sl_tx, sl_ack, max_nof_harq_retxs, wait) ==
  IF r.free_harqs = <<>> \/ r.ues[ue_idx].free_harq_ids = <<>>
  THEN [repo |-> r, h |-> nullptr]
  ELSE
    LET h_id == back(r.ues[ue_idx].free_harq_ids)
        harq_ref_idx == back(r.free_harqs)
        timeout == sl_ack + wait
    IN [repo |->
          [r EXCEPT
             !.free_harqs = pop_back(@),
             !.ues[ue_idx].harqs[h_id] = harq_ref_idx,
             !.harqs[harq_ref_idx] =
                [@ EXCEPT !.ue_idx = ue_idx, !.h_id = h_id, !.status = "waiting_ack",
                          !.slot_tx = sl_tx, !.slot_ack = sl_ack, !.nof_retxs = 0,
                          !.ndi = ~ @, !.max_nof_harq_retxs = max_nof_harq_retxs,
                          !.ack_on_timeout = FALSE, !.retxs_cancelled = FALSE,
                          !.slot_ack_timeout = timeout],
             !.harq_timeout_wheel[wheel_idx(timeout)] = push_front(@, harq_ref_idx)],
        h |-> harq_ref_idx]

\* alloc_harq that does not record the array slot in the terminal's index.
alloc_harq_no_index(r, ue_idx, sl_tx, sl_ack, max_nof_harq_retxs, wait) ==
  IF r.free_harqs = <<>> \/ r.ues[ue_idx].free_harq_ids = <<>>
  THEN [repo |-> r, h |-> nullptr]
  ELSE
    LET h_id == back(r.ues[ue_idx].free_harq_ids)
        harq_ref_idx == back(r.free_harqs)
        timeout == sl_ack + wait
    IN [repo |->
          [r EXCEPT
             !.ues[ue_idx].free_harq_ids = pop_back(@),
             !.free_harqs = pop_back(@),
             !.harqs[harq_ref_idx] =
                [@ EXCEPT !.ue_idx = ue_idx, !.h_id = h_id, !.status = "waiting_ack",
                          !.slot_tx = sl_tx, !.slot_ack = sl_ack, !.nof_retxs = 0,
                          !.ndi = ~ @, !.max_nof_harq_retxs = max_nof_harq_retxs,
                          !.ack_on_timeout = FALSE, !.retxs_cancelled = FALSE,
                          !.slot_ack_timeout = timeout],
             !.harq_timeout_wheel[wheel_idx(timeout)] = push_front(@, harq_ref_idx)],
        h |-> harq_ref_idx]

\* alloc_harq that takes the array slot from the cell free list before it finds
\* that the terminal has no process_id left.
alloc_harq_pops_slot_first(r, ue_idx, sl_tx, sl_ack, max_nof_harq_retxs, wait) ==
  IF r.free_harqs = <<>>
  THEN [repo |-> r, h |-> nullptr]
  ELSE IF r.ues[ue_idx].free_harq_ids = <<>>
  THEN [repo |-> [r EXCEPT !.free_harqs = pop_back(@)], h |-> nullptr]
  ELSE
    LET h_id == back(r.ues[ue_idx].free_harq_ids)
        harq_ref_idx == back(r.free_harqs)
        timeout == sl_ack + wait
        h == [r.harqs[harq_ref_idx] EXCEPT
                !.ue_idx = ue_idx,
                !.h_id = h_id,
                !.status = "waiting_ack",
                !.slot_tx = sl_tx,
                !.slot_ack = sl_ack,
                !.nof_retxs = 0,
                !.ndi = ~ @,
                !.max_nof_harq_retxs = max_nof_harq_retxs,
                !.ack_on_timeout = FALSE,
                !.retxs_cancelled = FALSE,
                !.slot_ack_timeout = timeout]
    IN [repo |->
          [r EXCEPT
             !.ues[ue_idx].free_harq_ids = pop_back(@),
             !.free_harqs = pop_back(@),
             !.ues[ue_idx].harqs[h_id] = harq_ref_idx,
             !.harqs[harq_ref_idx] = h,
             !.harq_timeout_wheel[wheel_idx(timeout)] = push_front(@, harq_ref_idx)],
        h |-> harq_ref_idx]

\* alloc_harq that leaves ack_on_timeout as the previous allocation left it.
alloc_harq_keeps_flag(r, ue_idx, sl_tx, sl_ack, max_nof_harq_retxs, wait) ==
  IF r.free_harqs = <<>> \/ r.ues[ue_idx].free_harq_ids = <<>>
  THEN [repo |-> r, h |-> nullptr]
  ELSE
    LET h_id == back(r.ues[ue_idx].free_harq_ids)
        harq_ref_idx == back(r.free_harqs)
        timeout == sl_ack + wait
        h == [r.harqs[harq_ref_idx] EXCEPT
                !.ue_idx = ue_idx,
                !.h_id = h_id,
                !.status = "waiting_ack",
                !.slot_tx = sl_tx,
                !.slot_ack = sl_ack,
                !.nof_retxs = 0,
                !.ndi = ~ @,
                !.max_nof_harq_retxs = max_nof_harq_retxs,
                !.retxs_cancelled = FALSE,
                !.slot_ack_timeout = timeout]
    IN [repo |->
          [r EXCEPT
             !.ues[ue_idx].free_harq_ids = pop_back(@),
             !.free_harqs = pop_back(@),
             !.ues[ue_idx].harqs[h_id] = harq_ref_idx,
             !.harqs[harq_ref_idx] = h,
             !.harq_timeout_wheel[wheel_idx(timeout)] = push_front(@, harq_ref_idx)],
        h |-> harq_ref_idx]

\* alloc_harq: [repo, h], h = nullptr when no process is available.
alloc_harq(r, ue_idx, sl_tx, sl_ack, max_nof_harq_retxs, wait) ==
  IF r.free_harqs = <<>> \/ r.ues[ue_idx].free_harq_ids = <<>>
  THEN [repo |-> r, h |-> nullptr]
  ELSE
    LET h_id == back(r.ues[ue_idx].free_harq_ids)
        harq_ref_idx == back(r.free_harqs)
        timeout == sl_ack + wait
        h == [r.harqs[harq_ref_idx] EXCEPT
                !.ue_idx = ue_idx,
                !.h_id = h_id,
                !.status = "waiting_ack",
                !.slot_tx = sl_tx,
                !.slot_ack = sl_ack,
                !.nof_retxs = 0,
                !.ndi = ~ @,
                !.max_nof_harq_retxs = max_nof_harq_retxs,
                !.ack_on_timeout = FALSE,
                !.retxs_cancelled = FALSE,
                !.slot_ack_timeout = timeout]
    IN [repo |->
          [r EXCEPT
             !.ues[ue_idx].free_harq_ids = pop_back(@),
             !.free_harqs = pop_back(@),
             !.ues[ue_idx].harqs[h_id] = harq_ref_idx,
             !.harqs[harq_ref_idx] = h,
             !.harq_timeout_wheel[wheel_idx(timeout)] = push_front(@, harq_ref_idx)],
        h |-> harq_ref_idx]

\* dealloc_harq that does not give the array slot back to the cell free list.
dealloc_harq_no_free(r, i) ==
  LET h == r.harqs[i] IN
  IF h.status = "empty"
  THEN r
  ELSE
    [r EXCEPT
       !.ues[h.ue_idx].harqs[h.h_id] = INVALID_HARQ_REF_INDEX,
       !.ues[h.ue_idx].free_harq_ids = push_back(@, h.h_id),
       !.harq_timeout_wheel[wheel_idx(h.slot_ack_timeout)] =
          IF h.status = "waiting_ack" THEN pop(@, i) ELSE @,
       !.harq_pending_retx_list =
          IF h.status = "waiting_ack" THEN @ ELSE pop(@, i),
       !.harqs[i].status = "empty"]

\* dealloc_harq that leaves a waiting record in its timeout-wheel bucket.
dealloc_harq_keeps_wheel(r, i) ==
  LET h == r.harqs[i] IN
  IF h.status = "empty"
  THEN r
  ELSE
    [r EXCEPT
       !.ues[h.ue_idx].harqs[h.h_id] = INVALID_HARQ_REF_INDEX,
       !.ues[h.ue_idx].free_harq_ids = push_back(@, h.h_id),
       !.free_harqs = push_back(@, i),
       !.harq_pending_retx_list =
          IF h.status = "waiting_ack" THEN @ ELSE pop(@, i),
       !.harqs[i].status = "empty"]

\* dealloc_harq that leaves the record in the pending-retransmission list.
dealloc_harq_keeps_pending(r, i) ==
  LET h == r.harqs[i] IN
  IF h.status = "empty"
  THEN r
  ELSE
    [r EXCEPT
       !.ues[h.ue_idx].harqs[h.h_id] = INVALID_HARQ_REF_INDEX,
       !.ues[h.ue_idx].free_harq_ids = push_back(@, h.h_id),
       !.free_harqs = push_back(@, i),
       !.harq_timeout_wheel[wheel_idx(h.slot_ack_timeout)] =
          IF h.status = "waiting_ack" THEN pop(@, i) ELSE @,
       !.harqs[i].status = "empty"]

\* dealloc_harq without the early return for a record that is already empty.
dealloc_harq_no_empty_check(r, i) ==
  LET h == r.harqs[i] IN
  [r EXCEPT
     !.ues[h.ue_idx].harqs[h.h_id] = INVALID_HARQ_REF_INDEX,
     !.ues[h.ue_idx].free_harq_ids = push_back(@, h.h_id),
     !.free_harqs = push_back(@, i),
     !.harq_timeout_wheel[wheel_idx(h.slot_ack_timeout)] =
        IF h.status = "waiting_ack" THEN pop(@, i) ELSE @,
     !.harq_pending_retx_list =
        IF h.status = "waiting_ack" THEN @ ELSE pop(@, i),
     !.harqs[i].status = "empty"]

\* cell_harq_repository::dealloc_harq
dealloc_harq(r, i) ==
  LET h == r.harqs[i] IN
  IF h.status = "empty"
  THEN r
  ELSE
    [r EXCEPT
       !.ues[h.ue_idx].harqs[h.h_id] = INVALID_HARQ_REF_INDEX,
       !.ues[h.ue_idx].free_harq_ids = push_back(@, h.h_id),
       !.free_harqs = push_back(@, i),
       !.harq_timeout_wheel[wheel_idx(h.slot_ack_timeout)] =
          IF h.status = "waiting_ack" THEN pop(@, i) ELSE @,
       !.harq_pending_retx_list =
          IF h.status = "waiting_ack" THEN @ ELSE pop(@, i),
       !.harqs[i].status = "empty"]

\* set_pending_retx that leaves the record in its timeout-wheel bucket.
set_pending_retx_keeps_wheel(r, i) ==
  LET h == r.harqs[i] IN
  IF h.status = "pending_retx"
  THEN r
  ELSE
    [r EXCEPT
       !.harq_pending_retx_list = push_front(@, i),
       !.harqs[i].status = "pending_retx"]

set_pending_retx(r, i) ==
  LET h == r.harqs[i] IN
  IF h.status = "pending_retx"
  THEN r
  ELSE
    [r EXCEPT
       !.harq_timeout_wheel[wheel_idx(h.slot_ack_timeout)] = pop(@, i),
       !.harq_pending_retx_list = push_front(@, i),
       !.harqs[i].status = "pending_retx"]

\* handle_ack that keeps a record whose retransmission count equals the maximum.
handle_ack_off_by_one(r, i, ack) ==
  IF ack \/ r.harqs[i].nof_retxs > r.harqs[i].max_nof_harq_retxs
  THEN dealloc_harq(r, i)
  ELSE set_pending_retx(r, i)

\* handle_ack that gives up the record at the first unsuccessful acknowledgment.
handle_ack_never_retx(r, i, ack) ==
  dealloc_harq(r, i)

\* cell_harq_repository::handle_ack
handle_ack(r, i, ack) ==
  IF ack \/ r.harqs[i].nof_retxs >= r.harqs[i].max_nof_harq_retxs
  THEN dealloc_harq(r, i)
  ELSE set_pending_retx(r, i)

\* reserve_ue_harqs that fills the free list with one process_id only.
reserve_ue_harqs_repeats_id(r, ue_idx, nof_harqs) ==
  [r EXCEPT !.ues[ue_idx].free_harq_ids = [count \in 1 .. nof_harqs |-> 0]]

\* cell_harq_repository::reserve_ue_harqs
reserve_ue_harqs(r, ue_idx, nof_harqs) ==
  [r EXCEPT !.ues[ue_idx].free_harq_ids =
              [count \in 1 .. nof_harqs |-> nof_harqs - (count - 1) - 1]]

RECURSIVE dealloc_ue_harqs(_, _, _)
\* The loop of destroy_ue_harqs over ues[ue_idx].harqs, from entry h_id on.
dealloc_ue_harqs(r, ue_idx, h_id) ==
  IF h_id >= MAX_NOF_HARQS
  THEN r
  ELSE
    LET h_idx == r.ues[ue_idx].harqs[h_id] IN
    dealloc_ue_harqs(IF h_idx # INVALID_HARQ_REF_INDEX THEN dealloc_harq(r, h_idx) ELSE r,
                     ue_idx, h_id + 1)

\* destroy_ue_harqs that leaves the process_ids of the terminal on its free list.
destroy_ue_harqs_keeps_ids(r, ue_idx) ==
  dealloc_ue_harqs(r, ue_idx, 0)

\* cell_harq_repository::destroy_ue_harqs
destroy_ue_harqs(r, ue_idx) ==
  [dealloc_ue_harqs(r, ue_idx, 0) EXCEPT !.ues[ue_idx].free_harq_ids = <<>>]

\* cancel_retxs that sets the flag and leaves the retransmission budget.
cancel_retxs_keeps_max(r, i) ==
  IF r.harqs[i].status = "empty"
  THEN r
  ELSE [r EXCEPT !.harqs[i].retxs_cancelled = TRUE]

\* cell_harq_repository::cancel_retxs
cancel_retxs(r, i) ==
  IF r.harqs[i].status = "empty"
  THEN r
  ELSE [r EXCEPT !.harqs[i].max_nof_harq_retxs = r.harqs[i].nof_retxs,
                 !.harqs[i].retxs_cancelled = TRUE]

\* handle_harq_ack_timeout that calls the notifier also when the wait is one slot.
handle_harq_ack_timeout_always_notifies(r, i, IsDl, wait, out) ==
  [repo |-> dealloc_harq(r, i),
   notifs |-> Append(out, <<r.harqs[i].ue_idx, IsDl, r.harqs[i].ack_on_timeout>>)]

\* handle_harq_ack_timeout that reports the timeout as a positive acknowledgment.
handle_harq_ack_timeout_assumes_ack(r, i, IsDl, wait, out) ==
  [repo |-> dealloc_harq(r, i),
   notifs |-> IF wait # 1
              THEN Append(out, <<r.harqs[i].ue_idx, IsDl, TRUE>>)
              ELSE out]

\* handle_harq_ack_timeout that returns without deallocating when the wait is one slot.
handle_harq_ack_timeout_returns_early(r, i, IsDl, wait, out) ==
  IF wait # 1
  THEN [repo |-> dealloc_harq(r, i),
        notifs |-> Append(out, <<r.harqs[i].ue_idx, IsDl, r.harqs[i].ack_on_timeout>>)]
  ELSE [repo |-> r, notifs |-> out]

\* handle_harq_ack_timeout: [repo, notifs], the notifications appended.
handle_harq_ack_timeout(r, i, IsDl, wait, out) ==
  [repo |-> dealloc_harq(r, i),
   notifs |-> IF wait # 1
              THEN Append(out, <<r.harqs[i].ue_idx, IsDl, r.harqs[i].ack_on_timeout>>)
              ELSE out]

RECURSIVE timeout_all(_, _, _, _, _)
\* The loop of slot_indication over the records queued in the bucket, front first.
timeout_all(r, todo, IsDl, wait, out) ==
  IF todo = <<>>
  THEN [repo |-> r, notifs |-> out]
  ELSE
    LET one == handle_harq_ack_timeout(r, Head(todo), IsDl, wait, out) IN
    timeout_all(one.repo, Tail(todo), IsDl, wait, one.notifs)

\* slot_indication that also times out the records of the pending-retransmission list.
slot_indication_sweeps_pending(r, sl_tx, IsDl, wait) ==
  timeout_all(r, r.harq_timeout_wheel[wheel_idx(sl_tx)] \o r.harq_pending_retx_list,
              IsDl, wait, <<>>)

\* cell_harq_repository::slot_indication
slot_indication(r, sl_tx, IsDl, wait) ==
  timeout_all(r, r.harq_timeout_wheel[wheel_idx(sl_tx)], IsDl, wait, <<>>)

\* slot_indication as written: a range-based for over the bucket, whose body
\* (handle_harq_ack_timeout, dealloc_harq) pops the current record from the
\* bucket before the iterator advances through the links of that record. With
\* links_kept the popped record still points to its successor and the loop
\* visits every record; otherwise pop has cleared the links and the loop ends
\* after the first record.
slot_indication_range_for(r, sl_tx, IsDl, wait, links_kept) ==
  LET harqs_timing_out == r.harq_timeout_wheel[wheel_idx(sl_tx)] IN
  timeout_all(r,
              IF links_kept \/ harqs_timing_out = <<>>
              THEN harqs_timing_out
              ELSE <<Head(harqs_timing_out)>>,
              IsDl, wait, <<>>)

\* ---------------------------------------------------- cell_harq_manager
contains(ue_idx) == Len(dl.ues[ue_idx].free_harq_ids) # 0

\* The unique_ue_harq_entity objects of a run; one that is not constructed yet.
HandleIds == 1 .. MaxHandles

NoHandle == [state |-> "unborn", cell_harq_mgr |-> FALSE, ue_index |-> INVALID_DU_UE_INDEX]

\* The state after the constructor of cell_harq_manager, for a wait out of waits.
InitWith(waits) ==
  /\ max_ack_wait_in_slots \in waits
  /\ last_sl_tx = NoSlot
  /\ dl = cell_harq_repository
  /\ ul = cell_harq_repository
  /\ ue_handle = [u \in UeIdx |-> FALSE]
  /\ notifs = <<>>
  /\ reports = [i \in RefIdx |-> <<>>]
  /\ reserved = [u \in UeIdx |-> [dl |-> 0, ul |-> 0]]
  /\ nof_allocs = 0
  /\ nof_pucch = 0
  /\ nof_cancels = 0
  /\ handles = [k \in HandleIds |-> NoHandle]
  /\ nof_add_ue = [u \in UeIdx |-> 0]
  /\ nof_destroy_ue = [u \in UeIdx |-> 0]
  /\ queue = base_blocking_queue
  /\ threads = [t \in Threads |-> NoCall]
  /\ nof_calls = 0
  /\ last_ndi = [d \in 1 .. 2 |-> [u \in UeIdx |-> [h_id \in HarqIds |-> NoNdi]]]

\* The slot of the next slot_indication: the clock advances by one slot per call.
next_slot == IF last_sl_tx = NoSlot THEN FirstSlot ELSE last_sl_tx + 1

\* cell_harq_manager::slot_indication, in a run whose last slot is last_slot.
SlotIndicationUpTo(last_slot) ==
  LET d == slot_indication(dl, next_slot, TRUE, max_ack_wait_in_slots)
      u == slot_indication(ul, next_slot, FALSE, max_ack_wait_in_slots)
  IN /\ next_slot <= last_slot
     /\ last_sl_tx' = next_slot
     /\ dl' = d.repo
     /\ ul' = u.repo
     /\ notifs' = d.notifs \o u.notifs
     /\ UNCHANGED <<max_ack_wait_in_slots, ue_handle, reserved, counters>>

SlotIndication == SlotIndicationUpTo(LastSlot)

\* cell_harq_manager::slot_indication(sl_tx) with the loop of the repositories
\* as written, in a run whose last slot is last_slot.
SlotIndicationRangeForAt(sl_tx, last_slot, links_kept) ==
  LET d == slot_indication_range_for(dl, sl_tx, TRUE, max_ack_wait_in_slots, links_kept)
      u == slot_indication_range_for(ul, sl_tx, FALSE, max_ack_wait_in_slots, links_kept)
  IN /\ sl_tx <= last_slot
     /\ last_sl_tx' = sl_tx
     /\ dl' = d.repo
     /\ ul' = u.repo
     /\ notifs' = d.notifs \o u.notifs
     /\ UNCHANGED <<max_ack_wait_in_slots, ue_handle, reserved, counters>>

SlotIndicationRangeFor(links_kept) ==
  SlotIndicationRangeForAt(next_slot, LastSlot, links_kept)

\* cell_harq_manager::add_ue
add_ue(ue_idx, nof_dl_harq_procs, nof_ul_harq_procs) ==
  /\ nof_dl_harq_procs > 0
  /\ nof_ul_harq_procs > 0
  /\ ~ contains(ue_idx)
  /\ dl' = reserve_ue_harqs(dl, ue_idx, nof_dl_harq_procs)
  /\ ul' = reserve_ue_harqs(ul, ue_idx, nof_ul_harq_procs)
  /\ ue_handle' = [ue_handle EXCEPT ![ue_idx] = TRUE]
  /\ reserved' = [reserved EXCEPT ![ue_idx] = [dl |-> nof_dl_harq_procs, ul |-> nof_ul_harq_procs]]
  /\ notifs' = <<>>
  /\ UNCHANGED <<max_ack_wait_in_slots, last_sl_tx, counters>>

\* add_ue called for a terminal that is not admitted: no handle of it is alive.
AddUe(ue_idx, nof_dl_harq_procs, nof_ul_harq_procs) ==
  /\ ~ ue_handle[ue_idx]
  /\ add_ue(ue_idx, nof_dl_harq_procs, nof_ul_harq_procs)

\* cell_harq_manager::destroy_ue
destroy_ue(ue_idx) ==
  /\ dl' = destroy_ue_harqs(dl, ue_idx)
  /\ ul' = destroy_ue_harqs(ul, ue_idx)

\* unique_ue_harq_entity::reset (and the destructor) of the handle of ue_idx.
Reset(ue_idx) ==
  /\ ue_handle[ue_idx]
  /\ destroy_ue(ue_idx)
  /\ ue_handle' = [ue_handle EXCEPT ![ue_idx] = FALSE]
  /\ reserved' = [reserved EXCEPT ![ue_idx] = [dl |-> 0, ul |-> 0]]
  /\ notifs' = <<>>
  /\ UNCHANGED <<max_ack_wait_in_slots, last_sl_tx, counters>>

\* cell_harq_manager::new_dl_tx: [repo, h]
new_dl_tx(r, ue_idx, pdsch_slot, k1, max_harq_nof_retxs, harq_bit_idx, wait) ==
  LET a == alloc_harq(r, ue_idx, pdsch_slot, pdsch_slot + k1, max_harq_nof_retxs, wait) IN
  IF a.h = nullptr
  THEN a
  ELSE [repo |-> [a.repo EXCEPT
                    !.harqs[a.h].tbs_bytes = 0,
                    !.harqs[a.h].harq_bit_idx = harq_bit_idx,
                    !.harqs[a.h].pucch_ack_to_receive = 0,
                    !.harqs[a.h].chosen_ack = "dtx",
                    !.harqs[a.h].last_pucch_snr = nullopt],
        h |-> a.h]

\* cell_harq_manager::new_ul_tx: [repo, h]
new_ul_tx(r, ue_idx, pusch_slot, max_harq_nof_retxs, wait) ==
  LET a == alloc_harq(r, ue_idx, pusch_slot, pusch_slot, max_harq_nof_retxs, wait) IN
  IF a.h = nullptr
  THEN a
  ELSE [repo |-> [a.repo EXCEPT !.harqs[a.h].tbs_bytes = 0], h |-> a.h]

\* choose_ack comparing the qualities with <=: a report of equal quality replaces
\* the one chosen before.
choose_ack_ties_to_latest(h, ack, pucch_snr) ==
  IF ack # "dtx" /\ (h.last_pucch_snr = nullopt
                      \/ (pucch_snr # nullopt /\ h.last_pucch_snr <= pucch_snr))
  THEN [chosen_ack |-> ack, last_pucch_snr |-> pucch_snr]
  ELSE [chosen_ack |-> h.chosen_ack, last_pucch_snr |-> h.last_pucch_snr]

\* The HARQ-ACK that dl_ack_info keeps as chosen: [chosen_ack, last_pucch_snr].
choose_ack(h, ack, pucch_snr) ==
  IF ack # "dtx" /\ (h.last_pucch_snr = nullopt
                      \/ (pucch_snr # nullopt /\ h.last_pucch_snr < pucch_snr))
  THEN [chosen_ack |-> ack, last_pucch_snr |-> pucch_snr]
  ELSE [chosen_ack |-> h.chosen_ack, last_pucch_snr |-> h.last_pucch_snr]

\* dl_ack_info that handles a report for a pending_retx record as well.
dl_ack_info_accepts_pending(r, i, ack, pucch_snr, sl) ==
  LET h == r.harqs[i]
      c == choose_ack(h, ack, pucch_snr)
      r1 == [r EXCEPT !.harqs[i].chosen_ack = c.chosen_ack,
                      !.harqs[i].last_pucch_snr = c.last_pucch_snr]
      final_ack == c.chosen_ack = "ack"
      timeout == sl + SHORT_ACK_TIMEOUT_DTX
  IN
  IF h.status = "empty"
  THEN [repo |-> r, ret |-> "error"]
  ELSE IF h.pucch_ack_to_receive <= 1
  THEN [repo |-> handle_ack(r1, i, final_ack),
        ret |-> IF final_ack THEN "acked" ELSE "nacked"]
  ELSE
    LET r2 == [r1 EXCEPT
                 !.harqs[i].pucch_ack_to_receive = @ - 1,
                 !.harqs[i].ack_on_timeout = final_ack,
                 !.harq_timeout_wheel[wheel_idx(h.slot_ack_timeout)] = pop(@, i)]
    IN [repo |-> [r2 EXCEPT
                    !.harqs[i].slot_ack_timeout = timeout,
                    !.harq_timeout_wheel[wheel_idx(timeout)] = push_front(@, i)],
        ret |-> "no_update"]

\* dl_ack_info whose non-final branch shortens the deadline of the record and
\* leaves the record in the bucket of its old deadline.
dl_ack_info_keeps_bucket(r, i, ack, pucch_snr, sl) ==
  LET h == r.harqs[i]
      c == choose_ack(h, ack, pucch_snr)
      r1 == [r EXCEPT !.harqs[i].chosen_ack = c.chosen_ack,
                      !.harqs[i].last_pucch_snr = c.last_pucch_snr]
      final_ack == c.chosen_ack = "ack"
      timeout == sl + SHORT_ACK_TIMEOUT_DTX
  IN
  IF h.status # "waiting_ack"
  THEN [repo |-> r, ret |-> "error"]
  ELSE IF h.pucch_ack_to_receive <= 1
  THEN [repo |-> handle_ack(r1, i, final_ack),
        ret |-> IF final_ack THEN "acked" ELSE "nacked"]
  ELSE
    [repo |-> [r1 EXCEPT
                 !.harqs[i].pucch_ack_to_receive = @ - 1,
                 !.harqs[i].ack_on_timeout = final_ack,
                 !.harqs[i].slot_ack_timeout = timeout],
     ret |-> "no_update"]

\* cell_harq_manager::dl_ack_info: [repo, ret]
dl_ack_info(r, i, ack, pucch_snr, sl) ==
  LET h == r.harqs[i]
      c == choose_ack(h, ack, pucch_snr)
      r1 == [r EXCEPT !.harqs[i].chosen_ack = c.chosen_ack,
                      !.harqs[i].last_pucch_snr = c.last_pucch_snr]
      final_ack == c.chosen_ack = "ack"
      timeout == sl + SHORT_ACK_TIMEOUT_DTX
  IN
  IF h.status # "waiting_ack"
  THEN [repo |-> r, ret |-> "error"]
  ELSE IF h.pucch_ack_to_receive <= 1
  THEN [repo |-> handle_ack(r1, i, final_ack),
        ret |-> IF final_ack THEN "acked" ELSE "nacked"]
  ELSE
    LET r2 == [r1 EXCEPT
                 !.harqs[i].pucch_ack_to_receive = @ - 1,
                 !.harqs[i].ack_on_timeout = final_ack,
                 !.harq_timeout_wheel[wheel_idx(h.slot_ack_timeout)] = pop(@, i)]
    IN [repo |-> [r2 EXCEPT
                    !.harqs[i].slot_ack_timeout = timeout,
                    !.harq_timeout_wheel[wheel_idx(timeout)] = push_front(@, i)],
        ret |-> "no_update"]

\* ul_crc_info returning the byte count whatever the CRC.
ul_crc_info_ignores_crc(r, i, ack) ==
  IF r.harqs[i].status # "waiting_ack"
  THEN [repo |-> r, ret |-> 0 - 1]
  ELSE LET after == handle_ack(r, i, ack) IN
       [repo |-> after, ret |-> after.harqs[i].tbs_bytes]

\* cell_harq_manager::ul_crc_info: [repo, ret]
ul_crc_info(r, i, ack) ==
  IF r.harqs[i].status # "waiting_ack"
  THEN [repo |-> r, ret |-> 0 - 1]
  ELSE LET after == handle_ack(r, i, ack) IN
       [repo |-> after, ret |-> IF ack THEN after.harqs[i].tbs_bytes ELSE 0]

\* The test of find_dl_harq that takes a waiting record of any occasion index.
dl_harq_matches_any_bit(r, h_ref_idx, uci_slot, harq_bit_idx) ==
  /\ r.harqs[h_ref_idx].status = "waiting_ack"
  /\ r.harqs[h_ref_idx].slot_ack = uci_slot

\* The test of find_dl_harq on the record an index entry names.
dl_harq_matches(r, h_ref_idx, uci_slot, harq_bit_idx) ==
  /\ r.harqs[h_ref_idx].status = "waiting_ack"
  /\ r.harqs[h_ref_idx].slot_ack = uci_slot
  /\ r.harqs[h_ref_idx].harq_bit_idx = harq_bit_idx

RECURSIVE find_dl_harq_from(_, _, _, _, _)
\* The loop of find_dl_harq over ues[ue_index].harqs, from entry h_id on.
find_dl_harq_from(r, ue_index, uci_slot, harq_bit_idx, h_id) ==
  IF h_id >= MAX_NOF_HARQS
  THEN nullopt
  ELSE
    LET h_ref_idx == r.ues[ue_index].harqs[h_id] IN
    IF h_ref_idx # INVALID_HARQ_REF_INDEX
       /\ dl_harq_matches(r, h_ref_idx, uci_slot, harq_bit_idx)
    THEN h_ref_idx
    ELSE find_dl_harq_from(r, ue_index, uci_slot, harq_bit_idx, h_id + 1)

\* unique_ue_harq_entity::find_dl_harq: the array slot of the view, or nullopt.
find_dl_harq(r, ue_index, uci_slot, harq_bit_idx) ==
  find_dl_harq_from(r, ue_index, uci_slot, harq_bit_idx, 0)

\* The test of find_ul_harq on the record an index entry names.
ul_harq_matches(r, h_ref_idx, pusch_slot) ==
  /\ r.harqs[h_ref_idx].status = "waiting_ack"
  /\ r.harqs[h_ref_idx].slot_tx = pusch_slot

RECURSIVE find_ul_harq_from(_, _, _, _)
\* The loop of find_ul_harq over ues[ue_index].harqs, from entry h_id on.
find_ul_harq_from(r, ue_index, pusch_slot, h_id) ==
  IF h_id >= MAX_NOF_HARQS
  THEN nullopt
  ELSE
    LET h_ref_idx == r.ues[ue_index].harqs[h_id] IN
    IF h_ref_idx # INVALID_HARQ_REF_INDEX /\ ul_harq_matches(r, h_ref_idx, pusch_slot)
    THEN h_ref_idx
    ELSE find_ul_harq_from(r, ue_index, pusch_slot, h_id + 1)

\* unique_ue_harq_entity::find_ul_harq: the array slot of the view, or nullopt.
find_ul_harq(r, ue_index, pusch_slot) ==
  find_ul_harq_from(r, ue_index, pusch_slot, 0)

\* unique_ue_harq_entity::alloc_dl_harq, for the slot of the latest
\* slot_indication, in a run of at most max_allocs allocation calls.
AllocDlHarqUpTo(max_allocs, ue_idx, k1, max_harq_nof_retxs, harq_bit_idx) ==
  /\ ue_handle[ue_idx]
  /\ last_sl_tx # NoSlot
  /\ nof_allocs < max_allocs
  /\ dl' = new_dl_tx(dl, ue_idx, last_sl_tx, k1, max_harq_nof_retxs, harq_bit_idx,
                     max_ack_wait_in_slots).repo
  /\ notifs' = <<>>
  /\ nof_allocs' = nof_allocs + 1
  /\ UNCHANGED <<max_ack_wait_in_slots, last_sl_tx, ul, ue_handle, reserved, nof_pucch, nof_cancels>>

AllocDlHarq(ue_idx, k1, max_harq_nof_retxs, harq_bit_idx) ==
  AllocDlHarqUpTo(MaxAllocs, ue_idx, k1, max_harq_nof_retxs, harq_bit_idx)

\* unique_ue_harq_entity::alloc_ul_harq, for the slot of the latest slot_indication.
AllocUlHarq(ue_idx, max_harq_nof_retxs) ==
  /\ ue_handle[ue_idx]
  /\ last_sl_tx # NoSlot
  /\ nof_allocs < MaxAllocs
  /\ ul' = new_ul_tx(ul, ue_idx, last_sl_tx, max_harq_nof_retxs, max_ack_wait_in_slots).repo
  /\ notifs' = <<>>
  /\ nof_allocs' = nof_allocs + 1
  /\ UNCHANGED <<max_ack_wait_in_slots, last_sl_tx, dl, ue_handle, reserved, nof_pucch, nof_cancels>>

\* A process view exists for every array slot that an allocation has handed out.
HasView(r, i) == r.harqs[i].slot_tx # NoSlot

\* dl_harq_process_view::dl_ack_info
DlAckInfo(harq_ref_idx, ack, pucch_snr) ==
  /\ HasView(dl, harq_ref_idx)
  /\ dl' = dl_ack_info(dl, harq_ref_idx, ack, pucch_snr, last_sl_tx).repo
  /\ notifs' = <<>>
  /\ UNCHANGED <<max_ack_wait_in_slots, last_sl_tx, ul, ue_handle, reserved, counters>>

\* ul_crc_info that hands the CRC to the downlink record of the same array slot too.
UlCrcInfo_acks_dl(harq_ref_idx, ack) ==
  /\ HasView(ul, harq_ref_idx)
  /\ ul' = ul_crc_info(ul, harq_ref_idx, ack).repo
  /\ dl' = IF dl.harqs[harq_ref_idx].status = "waiting_ack"
           THEN handle_ack(dl, harq_ref_idx, ack)
           ELSE dl
  /\ notifs' = <<>>
  /\ UNCHANGED <<max_ack_wait_in_slots, last_sl_tx, ue_handle, reserved, counters>>

\* ul_harq_process_view::ul_crc_info
UlCrcInfo(harq_ref_idx, ack) ==
  /\ HasView(ul, harq_ref_idx)
  /\ ul' = ul_crc_info(ul, harq_ref_idx, ack).repo
  /\ notifs' = <<>>
  /\ UNCHANGED <<max_ack_wait_in_slots, last_sl_tx, dl, ue_handle, reserved, counters>>

\* cancel_retxs on a downlink record
CancelDlRetxs(harq_ref_idx) ==
  /\ HasView(dl, harq_ref_idx)
  /\ nof_cancels < MaxCancels
  /\ dl' = cancel_retxs(dl, harq_ref_idx)
  /\ notifs' = <<>>
  /\ nof_cancels' = nof_cancels + 1
  /\ UNCHANGED <<max_ack_wait_in_slots, last_sl_tx, ul, ue_handle, reserved, nof_allocs, nof_pucch>>

\* cancel_retxs on an uplink record
CancelUlRetxs(harq_ref_idx) ==
  /\ HasView(ul, harq_ref_idx)
  /\ nof_cancels < MaxCancels
  /\ ul' = cancel_retxs(ul, harq_ref_idx)
  /\ notifs' = <<>>
  /\ nof_cancels' = nof_cancels + 1
  /\ UNCHANGED <<max_ack_wait_in_slots, last_sl_tx, dl, ue_handle, reserved, nof_allocs, nof_pucch>>

\* One more acknowledgment occasion is expected for a downlink record in waiting_ack.
increment_pucch_counter(r, i) == [r EXCEPT !.harqs[i].pucch_ack_to_receive = @ + 1]

IncrementPucchCounterUpTo(max_pucch, harq_ref_idx) ==
  /\ dl.harqs[harq_ref_idx].status = "waiting_ack"
  /\ nof_pucch < max_pucch
  /\ dl' = increment_pucch_counter(dl, harq_ref_idx)
  /\ notifs' = <<>>
  /\ nof_pucch' = nof_pucch + 1
  /\ UNCHANGED <<max_ack_wait_in_slots, last_sl_tx, ul, ue_handle, reserved, nof_allocs, nof_cancels>>

\* The parameters of the transmission of an uplink record are saved: its size in bytes.
save_tbs_bytes(r, i, tbs_bytes) == [r EXCEPT !.harqs[i].tbs_bytes = tbs_bytes]

SaveUlTbs(harq_ref_idx, tbs_bytes) ==
  /\ ul.harqs[harq_ref_idx].status = "waiting_ack"
  /\ ul.harqs[harq_ref_idx].tbs_bytes = 0
  /\ ul' = save_tbs_bytes(ul, harq_ref_idx, tbs_bytes)
  /\ notifs' = <<>>
  /\ UNCHANGED <<max_ack_wait_in_slots, last_sl_tx, dl, ue_handle, reserved, counters>>

IncrementPucchCounter(harq_ref_idx) == IncrementPucchCounterUpTo(MaxPucch, harq_ref_idx)

\* ------------------------------------------------------------------ Spec
\* The whole interface of the manager, two terminals, both directions, every
\* downlink process with a single acknowledgment occasion.
Init == InitWith({1, 2})

Next ==
  \/ SlotIndication /\ UNCHANGED <<reports, hvars, qvars, last_ndi>>
  \/ \E u \in UeIdx, nd \in {1, 2}, nu \in {1} : AddUe(u, nd, nu) /\ UNCHANGED <<reports, hvars, qvars, last_ndi>>
  \/ \E u \in UeIdx : Reset(u) /\ UNCHANGED <<reports, hvars, qvars, last_ndi>>
  \/ \E u \in UeIdx, m \in {1} : AllocDlHarq(u, 1, m, 0) /\ UNCHANGED <<reports, hvars, qvars, last_ndi>>
  \/ \E u \in UeIdx, m \in {1} : AllocUlHarq(u, m) /\ UNCHANGED <<reports, hvars, qvars, last_ndi>>
  \/ \E i \in RefIdx, a \in AckValues : DlAckInfo(i, a, nullopt) /\ UNCHANGED <<reports, hvars, qvars, last_ndi>>
  \/ \E i \in RefIdx, a \in BOOLEAN : UlCrcInfo(i, a) /\ UNCHANGED <<reports, hvars, qvars, last_ndi>>
  \/ \E i \in RefIdx : CancelDlRetxs(i) /\ UNCHANGED <<reports, hvars, qvars, last_ndi>>
  \/ \E i \in RefIdx : CancelUlRetxs(i) /\ UNCHANGED <<reports, hvars, qvars, last_ndi>>

Spec == Init /\ [][Next]_vars

\* ---------------------------------------------------------------- SpecDl
\* The downlink repository of one terminal with two processes: acknowledgments
\* of several occasions, cancellation of retransmissions, timeouts.
InitDl == InitWith({2})

NextDl ==
  \/ SlotIndication /\ UNCHANGED <<reports, hvars, qvars, last_ndi>>
  \/ AddUe(0, 2, 1) /\ UNCHANGED <<reports, hvars, qvars, last_ndi>>
  \/ Reset(0) /\ UNCHANGED <<reports, hvars, qvars, last_ndi>>
  \/ \E m \in {0, 1} : AllocDlHarq(0, 1, m, 0) /\ UNCHANGED <<reports, hvars, qvars, last_ndi>>
  \/ \E i \in RefIdx, a \in AckValues : DlAckInfo(i, a, nullopt) /\ UNCHANGED <<reports, hvars, qvars, last_ndi>>
  \/ \E i \in RefIdx : CancelDlRetxs(i) /\ UNCHANGED <<reports, hvars, qvars, last_ndi>>
  \/ \E i \in RefIdx : IncrementPucchCounter(i) /\ UNCHANGED <<reports, hvars, qvars, last_ndi>>

SpecDl == InitDl /\ [][NextDl]_vars

\* ------------------------------------------------------------- SpecMerge
\* One downlink process of one terminal: the reports of its acknowledgment
\* occasions, each ack, nack or dtx, with or without a quality value.
SnrSet == {nullopt, 3, 5}

\* The reports of the acknowledgment cycle in progress of each downlink record.
KeepReports(rep) ==
  reports' = [i \in RefIdx |-> IF dl'.harqs[i].status = "waiting_ack" THEN rep[i] ELSE <<>>]

LogReport(i, ack, pucch_snr) ==
  KeepReports(IF dl.harqs[i].status = "waiting_ack"
              THEN [reports EXCEPT ![i] = Append(@, <<ack, pucch_snr>>)]
              ELSE reports)

InitMerge == InitWith({2})

NextMerge ==
  \/ SlotIndication /\ KeepReports(reports) /\ UNCHANGED <<hvars, qvars, last_ndi>>
  \/ AddUe(0, 1, 1) /\ KeepReports(reports) /\ UNCHANGED <<hvars, qvars, last_ndi>>
  \/ Reset(0) /\ KeepReports(reports) /\ UNCHANGED <<hvars, qvars, last_ndi>>
  \/ \E m \in {0, 1} : AllocDlHarq(0, 1, m, 0) /\ KeepReports(reports) /\ UNCHANGED <<hvars, qvars, last_ndi>>
  \/ \E i \in RefIdx, a \in AckValues, q \in SnrSet : DlAckInfo(i, a, q) /\ LogReport(i, a, q) /\ UNCHANGED <<hvars, qvars, last_ndi>>
  \/ \E i \in RefIdx : IncrementPucchCounter(i) /\ KeepReports(reports) /\ UNCHANGED <<hvars, qvars, last_ndi>>

SpecMerge == InitMerge /\ [][NextMerge]_vars

\* A run long enough for the shortened deadline of a non-final report to
\* pass: one terminal, one process per direction, three acknowledgment occasions.
LastSlotFlag == FirstSlot + NofSlotsFlag - 1

SnrFlagSet == {nullopt, 5}

InitFlag == InitWith({2})

NextFlag ==
  \/ SlotIndicationUpTo(LastSlotFlag) /\ KeepReports(reports) /\ UNCHANGED <<hvars, qvars, last_ndi>>
  \/ AddUe(0, 1, 1) /\ KeepReports(reports) /\ UNCHANGED <<hvars, qvars, last_ndi>>
  \/ AllocDlHarq(0, 1, 1, 0) /\ KeepReports(reports) /\ UNCHANGED <<hvars, qvars, last_ndi>>
  \/ AllocUlHarq(0, 0) /\ KeepReports(reports) /\ UNCHANGED <<hvars, qvars, last_ndi>>
  \/ \E i \in RefIdx, a \in AckValues, q \in SnrFlagSet : DlAckInfo(i, a, q) /\ LogReport(i, a, q) /\ UNCHANGED <<hvars, qvars, last_ndi>>
  \/ \E i \in RefIdx : IncrementPucchCounterUpTo(MaxPucchFlag, i) /\ KeepReports(reports) /\ UNCHANGED <<hvars, qvars, last_ndi>>

SpecFlag == InitFlag /\ [][NextFlag]_vars

\* ---------------------------------------------------------------- SpecUl
\* The uplink repository of one terminal with one process: transmissions with
\* a recorded size, CRC results, cancellation, timeouts.
TbsSet == {20, 148}

InitUl == InitWith({2})

NextUl ==
  \/ SlotIndication /\ UNCHANGED <<reports, hvars, qvars, last_ndi>>
  \/ AddUe(0, 1, 1) /\ UNCHANGED <<reports, hvars, qvars, last_ndi>>
  \/ Reset(0) /\ UNCHANGED <<reports, hvars, qvars, last_ndi>>
  \/ \E m \in {0, 1} : AllocUlHarq(0, m) /\ UNCHANGED <<reports, hvars, qvars, last_ndi>>
  \/ \E i \in RefIdx, b \in TbsSet : SaveUlTbs(i, b) /\ UNCHANGED <<reports, hvars, qvars, last_ndi>>
  \/ \E i \in RefIdx, a \in BOOLEAN : UlCrcInfo(i, a) /\ UNCHANGED <<reports, hvars, qvars, last_ndi>>
  \/ \E i \in RefIdx : CancelUlRetxs(i) /\ UNCHANGED <<reports, hvars, qvars, last_ndi>>

SpecUl == InitUl /\ [][NextUl]_vars

\* -------------------------------------------------------------- SpecPool
\* The downlink pool of the cell used up: every terminal admitted with the
\* maximum number of processes, allocation calls until after the pool is empty.
MaxPoolAllocs == PoolSize + 1

InitPool == InitWith({2})

NextPool ==
  \/ SlotIndication /\ UNCHANGED <<reports, hvars, qvars, last_ndi>>
  \/ \E u \in UeIdx : AddUe(u, MAX_NOF_HARQS, 1) /\ UNCHANGED <<reports, hvars, qvars, last_ndi>>
  \/ \E u \in UeIdx : Reset(u) /\ UNCHANGED <<reports, hvars, qvars, last_ndi>>
  \/ \E u \in UeIdx : AllocDlHarqUpTo(MaxPoolAllocs, u, 1, 0, 0) /\ UNCHANGED <<reports, hvars, qvars, last_ndi>>

SpecPool == InitPool /\ [][NextPool]_vars

\* ------------------------------------------------------------- SpecWheel
\* Several records with one deadline: the allocations of one slot share a bucket.
InitWheel == InitWith({2})

NextWheel ==
  \/ \E links_kept \in BOOLEAN : SlotIndicationRangeFor(links_kept) /\ UNCHANGED <<reports, hvars, qvars, last_ndi>>
  \/ \E u \in UeIdx : AddUe(u, MAX_NOF_HARQS, 1) /\ UNCHANGED <<reports, hvars, qvars, last_ndi>>
  \/ \E u \in UeIdx : Reset(u) /\ UNCHANGED <<reports, hvars, qvars, last_ndi>>
  \/ \E u \in UeIdx : AllocDlHarq(u, 1, 1, 0) /\ UNCHANGED <<reports, hvars, qvars, last_ndi>>
  \/ \E u \in UeIdx : AllocUlHarq(u, 1) /\ UNCHANGED <<reports, hvars, qvars, last_ndi>>
  \/ \E i \in RefIdx, a \in AckValues : DlAckInfo(i, a, nullopt) /\ UNCHANGED <<reports, hvars, qvars, last_ndi>>

SpecWheel == InitWheel /\ [][NextWheel]_vars

\* -------------------------------------------------------------- SpecWrap
\* The longest wait below the ring size, in a run that goes round the ring.
LastSlotWrap == FirstSlot + NofSlotsWrap - 1

K1Wrap == {1, 2}

InitWrap == InitWith({RING_SIZE - 1})

NextWrap ==
  \/ SlotIndicationUpTo(LastSlotWrap) /\ UNCHANGED <<reports, hvars, qvars, last_ndi>>
  \/ \E u \in UeIdx : AddUe(u, 1, 1) /\ UNCHANGED <<reports, hvars, qvars, last_ndi>>
  \/ \E u \in UeIdx, k1 \in K1Wrap : AllocDlHarq(u, k1, 1, 0) /\ UNCHANGED <<reports, hvars, qvars, last_ndi>>
  \/ \E u \in UeIdx : AllocUlHarq(u, 1) /\ UNCHANGED <<reports, hvars, qvars, last_ndi>>

SpecWrap == InitWrap /\ [][NextWrap]_vars

\* -------------------------------------------------------------- SpecSkip
\* The caller leaves out the slot_indication call of a slot: the clock goes
\* from the slot of the latest call to the slot after the next.
LastSlotSkip == FirstSlot + NofSlotsSkip - 1

\* slot_indication for the slot after the one that was due.
SlotIndicationAfterSkip(links_kept) ==
  /\ last_sl_tx # NoSlot
  /\ SlotIndicationRangeForAt(next_slot + 1, LastSlotSkip, links_kept)

InitSkip == InitWith({2})

NextSkip ==
  \/ \E links_kept \in BOOLEAN : SlotIndicationRangeForAt(next_slot, LastSlotSkip, links_kept) /\ UNCHANGED <<reports, hvars, qvars, last_ndi>>
  \/ \E links_kept \in BOOLEAN : SlotIndicationAfterSkip(links_kept) /\ UNCHANGED <<reports, hvars, qvars, last_ndi>>
  \/ AddUe(0, MAX_NOF_HARQS, 1) /\ UNCHANGED <<reports, hvars, qvars, last_ndi>>
  \/ AllocDlHarq(0, 1, 1, 0) /\ UNCHANGED <<reports, hvars, qvars, last_ndi>>
  \/ AllocUlHarq(0, 1) /\ UNCHANGED <<reports, hvars, qvars, last_ndi>>

SpecSkip == InitSkip /\ [][NextSkip]_vars

\* -------------------------------------------------------------- SpecFind
\* Acknowledgment dispatch: the report of a slot and occasion index, and the
\* CRC of a slot, are handed to the record that the lookup of the handle finds.
SlotsFind == FirstSlot .. (LastSlot + 2)

BitsFind == {0, 1}

\* find_dl_harq of the handle of ue_index, then dl_ack_info on the view found.
FindDlHarqAck(ue_index, uci_slot, harq_bit_idx, ack) ==
  LET v == find_dl_harq(dl, ue_index, uci_slot, harq_bit_idx) IN
  /\ ue_handle[ue_index]
  /\ v # nullopt
  /\ DlAckInfo(v, ack, nullopt)

\* find_ul_harq of the handle of ue_index, then ul_crc_info on the view found.
FindUlHarqCrc(ue_index, pusch_slot, ack) ==
  LET v == find_ul_harq(ul, ue_index, pusch_slot) IN
  /\ ue_handle[ue_index]
  /\ v # nullopt
  /\ UlCrcInfo(v, ack)

InitFind == InitWith({2})

NextFind ==
  \/ SlotIndication /\ UNCHANGED <<reports, hvars, qvars, last_ndi>>
  \/ \E u \in UeIdx : AddUe(u, MAX_NOF_HARQS, MAX_NOF_HARQS) /\ UNCHANGED <<reports, hvars, qvars, last_ndi>>
  \/ \E u \in UeIdx : Reset(u) /\ UNCHANGED <<reports, hvars, qvars, last_ndi>>
  \/ \E u \in UeIdx, k1 \in 1 .. 2, b \in BitsFind : AllocDlHarq(u, k1, 1, b) /\ UNCHANGED <<reports, hvars, qvars, last_ndi>>
  \/ \E u \in UeIdx : AllocUlHarq(u, 1) /\ UNCHANGED <<reports, hvars, qvars, last_ndi>>
  \/ \E u \in UeIdx, sl \in SlotsFind, b \in BitsFind, a \in AckValues : FindDlHarqAck(u, sl, b, a) /\ UNCHANGED <<reports, hvars, qvars, last_ndi>>
  \/ \E u \in UeIdx, sl \in SlotsFind, a \in BOOLEAN : FindUlHarqCrc(u, sl, a) /\ UNCHANGED <<reports, hvars, qvars, last_ndi>>

SpecFind == InitFind /\ [][NextFind]_vars

\* -------------------------------------------------- unique_ue_harq_entity
Engaged(hs, u) ==
  {k \in HandleIds : hs[k].state = "alive" /\ hs[k].cell_harq_mgr /\ hs[k].ue_index = u}

\* The objects become hs; a terminal is admitted while an object holds it.
SetHandles(hs) ==
  /\ handles' = hs
  /\ ue_handle' = [u \in UeIdx |-> Engaged(hs, u) # {}]

\* 'if (cell_harq_mgr != nullptr) cell_harq_mgr->destroy_ue(ue_index)' of object k.
DestroyUeOf(k) ==
  IF handles[k].cell_harq_mgr
  THEN /\ destroy_ue(handles[k].ue_index)
       /\ reserved' = [reserved EXCEPT ![handles[k].ue_index] = [dl |-> 0, ul |-> 0]]
       /\ nof_destroy_ue' = [nof_destroy_ue EXCEPT ![handles[k].ue_index] = @ + 1]
  ELSE UNCHANGED <<dl, ul, reserved, nof_destroy_ue>>

\* add_ue for a terminal that is not admitted; object k is the handle it returns.
AddUeHandle(k, ue_idx, nof_dl_harq_procs, nof_ul_harq_procs) ==
  /\ handles[k].state = "unborn"
  /\ nof_add_ue[0] + nof_add_ue[MAX_UES - 1] < MaxAdds
  /\ AddUe(ue_idx, nof_dl_harq_procs, nof_ul_harq_procs)
  /\ handles' = [handles EXCEPT ![k] = [state |-> "alive", cell_harq_mgr |-> TRUE,
                                         ue_index |-> ue_idx]]
  /\ nof_add_ue' = [nof_add_ue EXCEPT ![ue_idx] = @ + 1]
  /\ UNCHANGED nof_destroy_ue

\* unique_ue_harq_entity(unique_ue_harq_entity&& other): object k from object other.
MoveConstruct(k, other) ==
  /\ handles[k].state = "unborn"
  /\ handles[other].state = "alive"
  /\ SetHandles([handles EXCEPT
                   ![k] = [state |-> "alive", cell_harq_mgr |-> handles[other].cell_harq_mgr,
                           ue_index |-> handles[other].ue_index],
                   ![other].cell_harq_mgr = FALSE,
                   ![other].ue_index = INVALID_DU_UE_INDEX])
  /\ notifs' = <<>>
  /\ UNCHANGED <<max_ack_wait_in_slots, last_sl_tx, dl, ul, reserved, counters,
                 nof_add_ue, nof_destroy_ue>>

\* operator=(unique_ue_harq_entity&& other) of object k.
MoveAssign(k, other) ==
  /\ handles[k].state = "alive"
  /\ handles[other].state = "alive"
  /\ DestroyUeOf(k)
  /\ LET taken == [handles EXCEPT ![k].cell_harq_mgr = handles[other].cell_harq_mgr,
                                  ![k].ue_index = handles[other].ue_index]
     IN SetHandles([taken EXCEPT ![other].cell_harq_mgr = FALSE,
                                 ![other].ue_index = INVALID_DU_UE_INDEX])
  /\ notifs' = <<>>
  /\ UNCHANGED <<max_ack_wait_in_slots, last_sl_tx, counters, nof_add_ue>>

\* reset() that leaves cell_harq_mgr set.
ResetHandle_keeps_mgr(k) ==
  /\ handles[k].state = "alive"
  /\ DestroyUeOf(k)
  /\ SetHandles(handles)
  /\ notifs' = <<>>
  /\ UNCHANGED <<max_ack_wait_in_slots, last_sl_tx, counters, nof_add_ue>>

\* unique_ue_harq_entity::reset of object k.
ResetHandle(k) ==
  /\ handles[k].state = "alive"
  /\ DestroyUeOf(k)
  /\ SetHandles([handles EXCEPT ![k].cell_harq_mgr = FALSE])
  /\ notifs' = <<>>
  /\ UNCHANGED <<max_ack_wait_in_slots, last_sl_tx, counters, nof_add_ue>>

\* ~unique_ue_harq_entity of object k.
DestroyHandle(k) ==
  /\ handles[k].state = "alive"
  /\ DestroyUeOf(k)
  /\ SetHandles([handles EXCEPT ![k].state = "dead"])
  /\ notifs' = <<>>
  /\ UNCHANGED <<max_ack_wait_in_slots, last_sl_tx, counters, nof_add_ue>>

\* ------------------------------------------------------------ SpecHandle
\* The handles of two terminals: returned by add_ue, moved into new and into
\* existing objects (themselves included), reset and destroyed, with downlink
\* allocations for the removal to give back.
InitHandle == InitWith({2})

NextHandle ==
  \/ SlotIndication /\ UNCHANGED <<reports, hvars, qvars, last_ndi>>
  \/ \E k \in HandleIds, u \in UeIdx : AddUeHandle(k, u, 1, 1) /\ UNCHANGED <<reports, qvars, last_ndi>>
  \/ \E k, other \in HandleIds : MoveConstruct(k, other) /\ UNCHANGED <<reports, qvars, last_ndi>>
  \/ \E k, other \in HandleIds : MoveAssign(k, other) /\ UNCHANGED <<reports, qvars, last_ndi>>
  \/ \E k \in HandleIds : ResetHandle(k) /\ UNCHANGED <<reports, qvars, last_ndi>>
  \/ \E k \in HandleIds : DestroyHandle(k) /\ UNCHANGED <<reports, qvars, last_ndi>>
  \/ \E u \in UeIdx : AllocDlHarq(u, 1, 1, 0) /\ UNCHANGED <<reports, hvars, qvars, last_ndi>>

SpecHandle == InitHandle /\ [][NextHandle]_vars

\* ------------------------------------------------------------- SpecAdmit
\* One terminal whose add_ue may be called again while it is admitted.
InitAdmit == InitWith({2})

NextAdmit ==
  \/ SlotIndication /\ UNCHANGED <<reports, hvars, qvars, last_ndi>>
  \/ \E nd \in {1, 2} : add_ue(0, nd, 1) /\ UNCHANGED <<reports, hvars, qvars, last_ndi>>
  \/ Reset(0) /\ UNCHANGED <<reports, hvars, qvars, last_ndi>>
  \/ AllocDlHarq(0, 1, 1, 0) /\ UNCHANGED <<reports, hvars, qvars, last_ndi>>
  \/ \E i \in RefIdx, a \in AckValues : DlAckInfo(i, a, nullopt) /\ UNCHANGED <<reports, hvars, qvars, last_ndi>>

SpecAdmit == InitAdmit /\ [][NextAdmit]_vars

\* ------------------------------------- base_blocking_queue: operations
\* A step of a thread is what it does between taking the mutex and releasing
\* it (at the end of the scope or inside a wait): s is the pair of the queue
\* and the threads, and every operator gives the pairs the step can end in.
full(q) == Len(q.circ_buffer) = QueueSize

empty(q) == q.circ_buffer = <<>>

Min(a, b) == IF a < b THEN a ELSE b

\* std::condition_variable::notify_one: one of the threads blocked on cv
\* leaves its wait and goes for the mutex.
notify_one(s, cv, woken) ==
  IF s.q[cv] = {}
  THEN {s}
  ELSE {[q |-> [s.q EXCEPT ![cv] = @ \ {w}],
         thr |-> [s.thr EXCEPT ![w].pc = woken]] : w \in s.q[cv]}

\* std::condition_variable::notify_all.
notify_all(s, cv, woken) ==
  [q |-> [s.q EXCEPT ![cv] = {}],
   thr |-> [t \in Threads |-> IF t \in s.q[cv] THEN [s.thr[t] EXCEPT !.pc = woken]
                                               ELSE s.thr[t]]]

\* std::condition_variable::wait: thread t releases the mutex and blocks on cv.
wait(s, t, cv, waiting) ==
  [q |-> [s.q EXCEPT ![cv] = @ \cup {t}],
   thr |-> [s.thr EXCEPT ![t].pc = waiting]]

\* Thread t returns from its call.
return(s, t) ==
  [s EXCEPT !.thr[t].pc = "idle", !.thr[t].items = <<>>, !.thr[t].room = 0]

\* Thread t returns ok from a call that returns a bool (or an error_type).
return_bool(s, t, ok) == return([s EXCEPT !.thr[t].ok = ok], t)

\* push_is_possible that does not look at active.
push_is_possible_ignores_active(q, block_mode) ==
  IF full(q)
  THEN IF ~ block_mode THEN "false" ELSE "wait"
  ELSE "true"

\* push_is_possible up to its wait: "false", "true", or "wait" when the thread
\* counts itself in nof_waiting and waits on cvar_full.
push_is_possible(q, block_mode) ==
  IF ~ q.active
  THEN "false"
  ELSE IF full(q)
  THEN IF ~ block_mode THEN "false" ELSE "wait"
  ELSE "true"

\* push_is_possible from the return of cvar_full.wait: 'while (circ_buffer.full()
\* and active)' and the test of active that follows it.
push_is_possible_woken(q) ==
  IF full(q) /\ q.active
  THEN "wait"
  ELSE IF ~ q.active THEN "false" ELSE "true"

\* push_(const T&, bool) and push_(T&&, bool) once the push is possible.
push_one(s, t) ==
  LET pushed == [s EXCEPT !.q.gauge = @ + 1,
                          !.q.circ_buffer = Append(@, s.thr[t].items[1])]
  IN {return_bool(n, t, TRUE) : n \in notify_one(pushed, "cvar_empty", "woken_empty")}

\* One turn of the loop of push_(It, It, bool) once the push is possible:
\* circ_buffer.try_push takes as many values as fit.
push_range(s, t) ==
  LET items == s.thr[t].items
      n == Min(QueueSize - Len(s.q.circ_buffer), Len(items))
      pushed == [s EXCEPT !.q.circ_buffer = @ \o SubSeq(items, 1, n),
                          !.q.gauge = @ + n,
                          !.thr[t].count = @ + n,
                          !.thr[t].items = SubSeq(items, n + 1, Len(items))]
  IN IF n = 0
     THEN {return(s, t)}
     ELSE {IF m.thr[t].items = <<>> THEN return(m, t)
                                    ELSE [m EXCEPT !.thr[t].pc = "push_range"] :
             m \in notify_one(pushed, "cvar_empty", "woken_empty")}

\* What a push does with the answer of push_is_possible.
push_with(s, t, possible) ==
  IF possible = "wait"
  THEN {wait(s, t, "cvar_full", "wait_full")}
  ELSE IF possible = "false"
  THEN IF s.thr[t].op = "push" THEN {return_bool(s, t, FALSE)} ELSE {return(s, t)}
  ELSE IF s.thr[t].op = "push" THEN push_one(s, t) ELSE push_range(s, t)

\* A push from the lock of the mutex.
push_locked(s, t) ==
  LET possible == push_is_possible(s.q, s.thr[t].block_mode) IN
  push_with(IF possible = "wait" THEN [s EXCEPT !.q.nof_waiting = (@ + 1) % 256] ELSE s,
            t, possible)

\* A push from the return of cvar_full.wait.
push_woken(s, t) ==
  LET possible == push_is_possible_woken(s.q) IN
  push_with(IF possible = "wait" THEN s ELSE [s EXCEPT !.q.nof_waiting = (@ + 255) % 256],
            t, possible)

\* pop_is_possible up to its wait: "false", "true", or "wait" when the thread
\* counts itself in nof_waiting and waits on cvar_empty.
pop_is_possible(q, block) ==
  IF ~ q.active
  THEN "false"
  ELSE IF empty(q)
  THEN IF ~ block THEN "false" ELSE "wait"
  ELSE "true"

\* pop_is_possible from the return of cvar_empty.wait, whose predicate is
\* 'not circ_buffer.empty() or not active', and the test of empty() after it.
pop_is_possible_woken(q) ==
  IF empty(q) /\ q.active
  THEN "wait"
  ELSE IF empty(q) THEN "false" ELSE "true"

\* A pop_ that takes the value pushed last.
pop_front_takes_back(s, t) ==
  LET buf == s.q.circ_buffer IN
  notify_one([s EXCEPT !.thr[t].out = Append(@, buf[Len(buf)]),
                       !.q.gauge = @ - 1,
                       !.q.circ_buffer = SubSeq(buf, 1, Len(buf) - 1)],
             "cvar_full", "woken_full")

\* The body of pop_(T&, bool): the front value leaves the queue.
pop_front(s, t) ==
  notify_one([s EXCEPT !.thr[t].out = Append(@, Head(s.q.circ_buffer)),
                       !.q.gauge = @ - 1,
                       !.q.circ_buffer = Tail(@)],
             "cvar_full", "woken_full")

\* One turn of the loop of pop_(It, It, bool) once the pop is possible:
\* circ_buffer.pop_into takes as many values as the range has room for.
pop_range(s, t) ==
  LET buf == s.q.circ_buffer
      n == Min(Len(buf), s.thr[t].room)
      popped == [s EXCEPT !.q.circ_buffer = SubSeq(buf, n + 1, Len(buf)),
                          !.q.gauge = @ - n,
                          !.thr[t].count = @ + n,
                          !.thr[t].out = @ \o SubSeq(buf, 1, n),
                          !.thr[t].room = @ - n]
  IN IF n = 0
     THEN {return(s, t)}
     ELSE {IF m.thr[t].room = 0 THEN return(m, t)
                                ELSE [m EXCEPT !.thr[t].pc = "pop_range"] :
             m \in notify_one(popped, "cvar_full", "woken_full")}

\* What a pop does with the answer of pop_is_possible; clear() calls
\* pop_(obj, false) until it returns false.
pop_with(s, t, possible) ==
  IF possible = "wait"
  THEN {wait(s, t, "cvar_empty", "wait_empty")}
  ELSE IF possible = "false"
  THEN IF s.thr[t].op = "pop" THEN {return_bool(s, t, FALSE)} ELSE {return(s, t)}
  ELSE IF s.thr[t].op = "pop" THEN {return_bool(n, t, TRUE) : n \in pop_front(s, t)}
  ELSE IF s.thr[t].op = "clear" THEN {[n EXCEPT !.thr[t].pc = "clear"] : n \in pop_front(s, t)}
  ELSE pop_range(s, t)

\* A pop from the lock of the mutex.
pop_locked(s, t) ==
  LET possible == pop_is_possible(s.q, s.thr[t].block_mode) IN
  pop_with(IF possible = "wait" THEN [s EXCEPT !.q.nof_waiting = (@ + 1) % 256] ELSE s,
           t, possible)

\* A pop from the return of cvar_empty.wait.
pop_woken(s, t) ==
  LET possible == pop_is_possible_woken(s.q) IN
  pop_with(IF possible = "wait" THEN s ELSE [s EXCEPT !.q.nof_waiting = (@ + 255) % 256],
           t, possible)

\* stop() from the lock of the mutex to its first unlock or its return.
stop_locked(s, t) ==
  IF s.q.active
  THEN IF s.q.nof_waiting > 0
       THEN [s EXCEPT !.q.active = FALSE, !.thr[t].pc = "stop_notify"]
       ELSE return([s EXCEPT !.q.active = FALSE, !.q.circ_buffer = <<>>], t)
  ELSE return(s, t)

\* stop(): cvar_empty.notify_all(); cvar_full.notify_all(); yield.
stop_notify(s, t) ==
  LET n == notify_all(notify_all(s, "cvar_empty", "woken_empty"), "cvar_full", "woken_full")
  IN [n EXCEPT !.thr[t].pc = "stop_lock"]

\* stop(): lock.lock(), 'while (nof_waiting > 0)' and circ_buffer.clear().
stop_relocked(s, t) ==
  IF s.q.nof_waiting > 0
  THEN [s EXCEPT !.thr[t].pc = "stop_notify"]
  ELSE return([s EXCEPT !.q.circ_buffer = <<>>], t)

\* ---------------------------------------- base_blocking_queue: actions
Now == [q |-> queue, thr |-> threads]

\* The queue and the threads become one of the pairs of after.
Becomes(after) ==
  /\ \E n \in after : queue' = n.q /\ threads' = n.thr
  /\ UNCHANGED harqvars

\* The step is one more call of the queue.
Counted == nof_calls' = nof_calls + 1

\* Thread t enters a call of the queue.
Calls(t, op, block_mode, items, room) ==
  [Now EXCEPT !.thr[t] = [pc |-> "idle", op |-> op, block_mode |-> block_mode,
                           items |-> items, room |-> room, out |-> <<>>, ok |-> FALSE,
                           count |-> 0]]

MayCall(t) == threads[t].pc = "idle" /\ nof_calls < MaxCalls

\* try_push(t) and push_blocking(t) of one value.
Push(t, x, block_mode) ==
  /\ MayCall(t)
  /\ Becomes(push_locked(Calls(t, "push", block_mode, <<x>>, 0), t))
  /\ Counted

\* try_push(b, e) and push_blocking(b, e).
PushRange(t, xs, block_mode) ==
  /\ MayCall(t)
  /\ Becomes(push_locked(Calls(t, "push_range", block_mode, xs, 0), t))
  /\ Counted

\* try_pop(obj) and pop_blocking().
Pop(t, block) ==
  /\ MayCall(t)
  /\ Becomes(pop_locked(Calls(t, "pop", block, <<>>, 0), t))
  /\ Counted

\* try_pop(b, e) and pop_blocking(b, e) with a range of n places.
PopRange(t, n, block) ==
  /\ MayCall(t)
  /\ Becomes(pop_locked(Calls(t, "pop_range", block, <<>>, n), t))
  /\ Counted

\* clear().
Clear(t) ==
  /\ MayCall(t)
  /\ Becomes(pop_locked(Calls(t, "clear", FALSE, <<>>, 0), t))
  /\ Counted

\* stop().
Stop(t) ==
  /\ MayCall(t)
  /\ Becomes({stop_locked(Calls(t, "stop", FALSE, <<>>, 0), t)})
  /\ Counted

\* Thread t goes on with its call: from a wait it was woken from, with the
\* next turn of a loop, or with the next step of stop().
Resume(t) ==
  /\ threads[t].pc \in {"woken_full", "woken_empty", "push_range", "pop_range", "clear",
                        "stop_notify", "stop_lock"}
  /\ Becomes(CASE threads[t].pc = "woken_full" -> push_woken(Now, t)
               [] threads[t].pc = "woken_empty" -> pop_woken(Now, t)
               [] threads[t].pc = "push_range" -> push_locked(Now, t)
               [] threads[t].pc \in {"pop_range", "clear"} -> pop_locked(Now, t)
               [] threads[t].pc = "stop_notify" -> {stop_notify(Now, t)}
               [] OTHER -> {stop_relocked(Now, t)})
  /\ UNCHANGED nof_calls

\* A wait returns although nobody notified (spurious wake-up).
SpuriousWakeup(t) ==
  /\ threads[t].pc \in {"wait_full", "wait_empty"}
  /\ Becomes({[q |-> [queue EXCEPT !.cvar_full = @ \ {t}, !.cvar_empty = @ \ {t}],
               thr |-> [threads EXCEPT ![t].pc = IF @ = "wait_full" THEN "woken_full"
                                                                    ELSE "woken_empty"]]})
  /\ UNCHANGED nof_calls

\* ------------------------------------------------------------- SpecQueue
\* NofThreads threads that make up to MaxCalls calls of one queue of
\* QueueSize places. A thread that is inside a call goes on with it (weak
\* fairness of Resume); nothing makes a thread call, and nothing makes a wait
\* return spuriously.
InitQueue == InitWith({2})

NextQueue ==
  \/ \E t \in Threads, x \in Elems, block_mode \in BOOLEAN : Push(t, x, block_mode)
  \/ \E t \in Threads, xs \in Ranges, block_mode \in BOOLEAN : PushRange(t, xs, block_mode)
  \/ \E t \in Threads, block \in BOOLEAN : Pop(t, block)
  \/ \E t \in Threads, n \in 1 .. MaxRange, block \in BOOLEAN : PopRange(t, n, block)
  \/ \E t \in Threads : Clear(t)
  \/ \E t \in Threads : Stop(t)
  \/ \E t \in Threads : Resume(t)
  \/ \E t \in Threads : SpuriousWakeup(t)

SpecQueue == InitQueue /\ [][NextQueue]_vars /\ \A t \in Threads : WF_vars(Resume(t))

\* ------------------------------------------------------------ SpecWakeup
\* The pushes and pops of an active queue: nobody stops or clears it.
InitWakeup == InitWith({2})

NextWakeup ==
  \/ \E t \in Threads, x \in Elems, block_mode \in BOOLEAN : Push(t, x, block_mode)
  \/ \E t \in Threads, xs \in Ranges, block_mode \in BOOLEAN : PushRange(t, xs, block_mode)
  \/ \E t \in Threads, block \in BOOLEAN : Pop(t, block)
  \/ \E t \in Threads, n \in 1 .. MaxRange, block \in BOOLEAN : PopRange(t, n, block)
  \/ \E t \in Threads : Resume(t)
  \/ \E t \in Threads : SpuriousWakeup(t)

SpecWakeup == InitWakeup /\ [][NextWakeup]_vars /\ \A t \in Threads : WF_vars(Resume(t))

\* ------------------------------------------------------------ properties
Repos == <<dl, ul>>

NonEmpty(r) == {i \in RefIdx : r.harqs[i].status # "empty"}

OwnedBy(r, u) == {i \in NonEmpty(r) : r.harqs[i].ue_idx = u}

NoDuplicates(s) == Cardinality(SeqToSet(s)) = Len(s)

InWheel(r, i) == {b \in Buckets : i \in SeqToSet(r.harq_timeout_wheel[b])}

Occurrences(s, x) == Cardinality({k \in 1 .. Len(s) : s[k] = x})

\* A record that has been allocated and given back.
Recycled(r, i) == r.harqs[i].status = "empty" /\ r.harqs[i].slot_tx # NoSlot

\* C1: per direction, the size of the global free list plus the number of
\* non-empty records equals the pool capacity, and no array slot is twice on
\* the free list.
C1_PoolConservation ==
  \A d \in 1 .. 2 :
    /\ Len(Repos[d].free_harqs) + Cardinality(NonEmpty(Repos[d])) = PoolSize
    /\ NoDuplicates(Repos[d].free_harqs)

\* A record was given back while another one is still allocated.
C1_Witness ==
  \E d \in 1 .. 2 : \E i, j \in RefIdx :
    /\ Recycled(Repos[d], i)
    /\ Repos[d].harqs[j].status = "pending_retx"
    /\ Len(Repos[d].free_harqs) = PoolSize - 1

\* C2: per direction, a terminal never owns more non-empty records than the
\* number of processes its add_ue reserved.
C2_TerminalBudget ==
  \A u \in UeIdx :
    /\ Cardinality(OwnedBy(dl, u)) <= reserved[u].dl
    /\ Cardinality(OwnedBy(ul, u)) <= reserved[u].ul

\* A terminal has used up its whole downlink budget of two processes.
C2_Witness ==
  \E u \in UeIdx : reserved[u].dl = 2 /\ Cardinality(OwnedBy(dl, u)) = 2

\* C4: a record is empty exactly when its array slot is on the global free
\* list, and an empty record is in no per-terminal index, no wheel bucket and
\* not in the pending-retransmission list.
C4_EmptyIffFree ==
  \A d \in 1 .. 2 : \A i \in RefIdx :
    LET r == Repos[d] IN
    /\ (r.harqs[i].status = "empty") <=> (i \in SeqToSet(r.free_harqs))
    /\ r.harqs[i].status = "empty" =>
         /\ \A u \in UeIdx, h \in HarqIds : r.ues[u].harqs[h] # i
         /\ InWheel(r, i) = {}
         /\ i \notin SeqToSet(r.harq_pending_retx_list)

\* A record given back by a timeout, one given back from the pending list.
C4_Witness ==
  \E d \in 1 .. 2 : \E i \in RefIdx :
    /\ Recycled(Repos[d], i)
    /\ Repos[d].harqs[i].slot_ack_timeout = last_sl_tx
    /\ \E j \in RefIdx : j # i /\ Repos[d].harqs[j].status = "waiting_ack"

\* C5: per direction, at most one non-empty record has a given (terminal,
\* process_id), and the terminal's index entry of that process_id is the array
\* slot of that record, or none when there is no such record.
C5_UniqueProcess ==
  \A d \in 1 .. 2 : \A u \in UeIdx, h \in HarqIds :
    LET r == Repos[d]
        recs == {i \in OwnedBy(r, u) : r.harqs[i].h_id = h}
    IN /\ Cardinality(recs) <= 1
       /\ \A i \in recs : r.ues[u].harqs[h] = i
       /\ recs = {} => r.ues[u].harqs[h] = INVALID_HARQ_REF_INDEX

\* A terminal holds two processes at once, the other terminal being admitted too.
C5_Witness ==
  \E u \in UeIdx :
    /\ {dl.harqs[i].h_id : i \in OwnedBy(dl, u)} = {0, 1}
    /\ \A v \in UeIdx : ue_handle[v]

\* C3: every non-empty record is in exactly one of the timeout wheel and the
\* pending-retransmission list, the one its status names: waiting_ack in
\* exactly one wheel bucket and not pending, pending_retx pending and in no bucket.
C3_ExclusiveMembership ==
  \A d \in 1 .. 2 : \A i \in NonEmpty(Repos[d]) :
    LET r == Repos[d]
        in_wheel == {b \in Buckets : Occurrences(r.harq_timeout_wheel[b], i) > 0}
    IN IF r.harqs[i].status = "waiting_ack"
       THEN /\ Cardinality(in_wheel) = 1
            /\ \A b \in in_wheel : Occurrences(r.harq_timeout_wheel[b], i) = 1
            /\ Occurrences(r.harq_pending_retx_list, i) = 0
       ELSE /\ in_wheel = {}
            /\ Occurrences(r.harq_pending_retx_list, i) = 1

\* One record moved to a new bucket by a non-final report, another one pending.
C3_Witness ==
  \E i, j \in RefIdx :
    /\ dl.harqs[i].status = "waiting_ack"
    /\ dl.harqs[i].pucch_ack_to_receive = 1
    /\ dl.harqs[i].slot_ack_timeout = last_sl_tx + SHORT_ACK_TIMEOUT_DTX
    /\ dl.harqs[j].status = "pending_retx"

\* The records of direction d (1: downlink, 2: uplink) that a step times out.
TimedOut(d) ==
  {i \in RefIdx : Repos[d].harqs[i].status = "waiting_ack"
                  /\ Repos[d]'.harqs[i].status = "empty"}

SlotStep == last_sl_tx' # last_sl_tx

\* The notifier is called once per record timed out, with its terminal and direction.
NotifiedOncePerRecord ==
  IF max_ack_wait_in_slots = 1
  THEN notifs' = <<>>
  ELSE /\ Len(notifs') = Cardinality(TimedOut(1)) + Cardinality(TimedOut(2))
       /\ \A u \in UeIdx :
            /\ Cardinality({k \in 1 .. Len(notifs') : notifs'[k][1] = u /\ notifs'[k][2]})
                 = Cardinality({i \in TimedOut(1) : dl.harqs[i].ue_idx = u})
            /\ Cardinality({k \in 1 .. Len(notifs') : notifs'[k][1] = u /\ ~ notifs'[k][2]})
                 = Cardinality({i \in TimedOut(2) : ul.harqs[i].ue_idx = u})

Scenario100 ==
  new_dl_tx(reserve_ue_harqs(cell_harq_repository, 0, 1), 0, 100, 4, 1, 0, 8)

NonDtx(rs) == {k \in 1 .. Len(rs) : rs[k][1] # "dtx"}

\* The quality of a report; a report without a quality value ranks below all
\* reports that carry one.
Quality(rep) == rep[2]

\* The earliest non-dtx report among those of the highest quality.
Best(rs) ==
  CHOOSE k \in NonDtx(rs) :
    \A j \in NonDtx(rs) :
      Quality(rs[j]) < Quality(rs[k]) \/ (Quality(rs[j]) = Quality(rs[k]) /\ k <= j)

\* The decision the merge rule prescribes for the reports of a cycle.
Decision(rs) == IF NonDtx(rs) = {} THEN "nacked"
                ELSE IF rs[Best(rs)][1] = "ack" THEN "acked" ELSE "nacked"

C9_MergeRule ==
  \A i \in RefIdx, a \in AckValues, q \in SnrSet :
    LET h == dl.harqs[i]
        res == dl_ack_info(dl, i, a, q, last_sl_tx)
    IN
    h.status = "waiting_ack" /\ h.pucch_ack_to_receive <= 1
      => res.ret = Decision(Append(reports[i], <<a, q>>))

\* Both reports are decoded and neither carries a quality value.
NoQualityPair(rs) ==
  Len(rs) = 2 /\ \A k \in 1 .. 2 : rs[k][1] # "dtx" /\ rs[k][2] = nullopt

C11_UlCrcBytes ==
  \A i \in RefIdx :
    LET h == ul.harqs[i] IN
    IF h.status = "waiting_ack"
    THEN /\ ul_crc_info(ul, i, TRUE).ret = h.tbs_bytes
         /\ h.tbs_bytes = 148 => ul_crc_info(ul, i, TRUE).ret = 148
         /\ ul_crc_info(ul, i, FALSE).ret = 0
    ELSE \A a \in BOOLEAN : ul_crc_info(ul, i, a).ret = 0 - 1

\* An uplink record with 148 bytes saved was given back before its deadline.
C11_Witness ==
  \E i \in RefIdx :
    /\ Recycled(ul, i)
    /\ ul.harqs[i].tbs_bytes = 148
    /\ last_sl_tx < ul.harqs[i].slot_ack_timeout
    /\ ue_handle[ul.harqs[i].ue_idx]

\* C12: removing a terminal a second time leaves exactly the state the first
\* removal left: no array slot is pushed twice on the global free list, the
\* size of the free pool and every record stay as they were. The same holds
\* for deallocating a record a second time.
C12_IdempotentTeardown ==
  \A d \in 1 .. 2 :
    /\ \A u \in UeIdx :
         LET once == destroy_ue_harqs(Repos[d], u)
             twice == destroy_ue_harqs(once, u)
         IN /\ twice = once
            /\ NoDuplicates(twice.free_harqs)
            /\ Len(twice.free_harqs) = Len(Repos[d].free_harqs) + Cardinality(OwnedBy(Repos[d], u))
            /\ OwnedBy(twice, u) = {}
    /\ \A i \in NonEmpty(Repos[d]) :
         LET once == dealloc_harq(Repos[d], i)
             twice == dealloc_harq(once, i)
         IN /\ twice = once
            /\ Occurrences(twice.free_harqs, i) = 1

\* A terminal with a waiting and a pending downlink record was removed.
C12_Witness ==
  \E u \in UeIdx : \E i, j \in RefIdx :
    /\ ~ ue_handle[u]
    /\ i # j
    /\ Recycled(dl, i) /\ dl.harqs[i].ue_idx = u
    /\ Recycled(dl, j) /\ dl.harqs[j].ue_idx = u
    /\ dl.ues[u].free_harq_ids = <<>>
    /\ last_sl_tx < dl.harqs[i].slot_ack_timeout
    /\ last_sl_tx < dl.harqs[j].slot_ack_timeout
    /\ dl.harqs[j].chosen_ack = "nack"

\* C13: dl_ack_info and ul_crc_info on a record that is not in waiting_ack
\* (empty or pending_retx) return the error result and leave the repository
\* as it is: records, free lists, timeout wheel and pending list.
C13_ProtocolViolation ==
  \A i \in RefIdx :
    /\ dl.harqs[i].status # "waiting_ack" =>
         \A a \in AckValues, q \in SnrSet :
           dl_ack_info(dl, i, a, q, last_sl_tx) = [repo |-> dl, ret |-> "error"]
    /\ ul.harqs[i].status # "waiting_ack" =>
         \A a \in BOOLEAN :
           ul_crc_info(ul, i, a) = [repo |-> ul, ret |-> 0 - 1]

\* A downlink record is pending after a negative report and an uplink record
\* was given back by its CRC before the deadline.
C13_Witness ==
  \E i, k \in RefIdx :
    /\ dl.harqs[i].status = "pending_retx"
    /\ Recycled(ul, k)
    /\ last_sl_tx < ul.harqs[k].slot_ack_timeout
    /\ ue_handle[ul.harqs[k].ue_idx]
    /\ ue_handle[dl.harqs[i].ue_idx]

\* No process is available to terminal u in repository r.
Exhausted(r, u) == r.free_harqs = <<>> \/ r.ues[u].free_harq_ids = <<>>

\* C14: an allocation for a terminal without a free process_id, or with the
\* global free list empty, returns the empty result and changes nothing; with
\* a free element in both lists it succeeds.
C14_Exhaustion ==
  \A u \in UeIdx : \A sl \in FirstSlot .. LastSlot :
    LET d == new_dl_tx(dl, u, sl, 1, 0, 0, max_ack_wait_in_slots)
        c == new_ul_tx(ul, u, sl, 0, max_ack_wait_in_slots)
    IN
    /\ IF Exhausted(dl, u)
       THEN d = [repo |-> dl, h |-> nullptr]
       ELSE /\ d.h = back(dl.free_harqs)
            /\ d.repo.harqs[d.h].status = "waiting_ack"
            /\ d.repo.harqs[d.h].ue_idx = u
            /\ d.repo.free_harqs = pop_back(dl.free_harqs)
            /\ d.repo.ues[u].free_harq_ids = pop_back(dl.ues[u].free_harq_ids)
    /\ IF Exhausted(ul, u)
       THEN c = [repo |-> ul, h |-> nullptr]
       ELSE /\ c.h = back(ul.free_harqs)
            /\ c.repo.harqs[c.h].status = "waiting_ack"
            /\ c.repo.harqs[c.h].ue_idx = u
            /\ c.repo.free_harqs = pop_back(ul.free_harqs)
            /\ c.repo.ues[u].free_harq_ids = pop_back(ul.ues[u].free_harq_ids)

\* The global free list is empty and one more allocation call was made.
C14_Witness ==
  /\ dl.free_harqs = <<>>
  /\ nof_allocs = MaxPoolAllocs
  /\ \A u \in UeIdx : ue_handle[u]

\* The array slot i of r carries its second, fourth, ... allocation (ndi is
\* flipped by every allocation): a Process View of an earlier allocation of
\* the slot, since deallocated, is still around.
Reused(r, i) == r.harqs[i].slot_tx # NoSlot /\ r.harqs[i].ndi = EmptyHarq.ndi

\* C15: a report through the Process View of an allocation that has since been
\* deallocated returns error and changes no record, also when the array slot
\* has been allocated again meanwhile.
C15_StaleAck ==
  \A i \in RefIdx :
    /\ Reused(dl, i) =>
         \A a \in AckValues :
           dl_ack_info(dl, i, a, nullopt, last_sl_tx) = [repo |-> dl, ret |-> "error"]
    /\ Reused(ul, i) =>
         \A a \in BOOLEAN :
           ul_crc_info(ul, i, a) = [repo |-> ul, ret |-> 0 - 1]

\* C16: add_ue for a terminal that is admitted trips the assertion of add_ue
\* (contains is true of it) whatever number of processes it has allocated, so
\* its budget is never reserved again: free process_ids plus allocated
\* records stay the number its add_ue reserved.
C16_DoubleAdmissionCaught ==
  \A u \in UeIdx :
    ue_handle[u] =>
      /\ contains(u)
      /\ Len(dl.ues[u].free_harq_ids) + Cardinality(OwnedBy(dl, u)) = reserved[u].dl
      /\ Len(ul.ues[u].free_harq_ids) + Cardinality(OwnedBy(ul, u)) = reserved[u].ul

\* C17: for every handle returned by add_ue and whatever moves, resets and
\* destructions are applied to it and to the objects it is moved into,
\* destroy_ue runs for its terminal exactly once in total: at any time the
\* add_ue calls for a terminal are its destroy_ue calls plus the one object
\* that still holds it, and an object that was moved from or reset holds
\* nothing, so its destruction removes nothing.
C17_RemovedExactlyOnce ==
  \A u \in UeIdx :
    /\ Cardinality(Engaged(handles, u)) <= 1
    /\ nof_add_ue[u] = nof_destroy_ue[u] + Cardinality(Engaged(handles, u))
    /\ (\A k \in HandleIds : handles[k].state # "alive") => nof_destroy_ue[u] = nof_add_ue[u]

\* The handle of a terminal with an allocated record went through three
\* objects, all destroyed by now, and the terminal was removed once.
C17_Witness ==
  /\ \A k \in HandleIds : handles[k].state = "dead"
  /\ nof_add_ue[0] = 1 /\ nof_destroy_ue[0] = 1
  /\ nof_add_ue[MAX_UES - 1] = 0
  /\ \E i \in RefIdx : Recycled(dl, i) /\ dl.harqs[i].ue_idx = 0
                         /\ last_sl_tx < dl.harqs[i].slot_ack_timeout

\* C18: every non-empty record has nof_retxs <= max_nof_harq_retxs, also after
\* cancel_retxs; when the two are equal the next unsuccessful acknowledgment
\* deallocates the record instead of moving it to pending_retx.
C18_RetxCountBounded ==
  /\ \A d \in 1 .. 2 : \A i \in NonEmpty(Repos[d]) :
       LET h == Repos[d].harqs[i]
           cancelled == cancel_retxs(Repos[d], i).harqs[i]
       IN /\ h.nof_retxs <= h.max_nof_harq_retxs
          /\ cancelled.nof_retxs = cancelled.max_nof_harq_retxs
          /\ h.retxs_cancelled => h.nof_retxs = h.max_nof_harq_retxs
  /\ \A i \in RefIdx :
       /\ dl.harqs[i].status = "waiting_ack"
            /\ dl.harqs[i].pucch_ack_to_receive <= 1
            /\ dl.harqs[i].nof_retxs = dl.harqs[i].max_nof_harq_retxs
            => \A a \in {"nack", "dtx"} :
                 LET res == dl_ack_info(dl, i, a, nullopt, last_sl_tx) IN
                 /\ res.ret = "nacked"
                 /\ res.repo.harqs[i].status = "empty"
                 /\ i \in SeqToSet(res.repo.free_harqs)
       /\ ul.harqs[i].status = "waiting_ack"
            /\ ul.harqs[i].nof_retxs = ul.harqs[i].max_nof_harq_retxs
            => LET res == ul_crc_info(ul, i, FALSE) IN
               /\ res.repo.harqs[i].status = "empty"
               /\ i \in SeqToSet(res.repo.free_harqs)

\* A downlink record allocated with one retransmission had its
\* retransmissions cancelled and was given back by a negative report.
C18_Witness ==
  \E i \in RefIdx :
    /\ Recycled(dl, i)
    /\ dl.harqs[i].retxs_cancelled
    /\ dl.harqs[i].max_nof_harq_retxs = dl.harqs[i].nof_retxs
    /\ dl.harqs[i].chosen_ack = "nack"
    /\ ue_handle[dl.harqs[i].ue_idx]
    /\ last_sl_tx < dl.harqs[i].slot_ack_timeout

\* The records of direction d queued in the bucket that the next
\* slot_indication visits.
Due(d) ==
  {i \in RefIdx : Repos[d].harqs[i].status = "waiting_ack"
                  /\ i \in SeqToSet(Repos[d].harq_timeout_wheel[wheel_idx(next_slot)])}

\* The calls of the notifier that the records due give rise to.
DueCalls(t) ==
  Cardinality({i \in Due(1) : t = <<dl.harqs[i].ue_idx, TRUE, dl.harqs[i].ack_on_timeout>>})
    + Cardinality({i \in Due(2) : t = <<ul.harqs[i].ue_idx, FALSE, ul.harqs[i].ack_on_timeout>>})

QualityTie(rs) ==
  /\ Cardinality(NonDtx(rs)) >= 2
  /\ \A k \in NonDtx(rs) : rs[k][2] = nullopt

\* The assumed-positive flag that the reports of the current allocation of a
\* downlink record call for.
AssumedPositive(i) == reports[i] # <<>> /\ dl.harqs[i].chosen_ack = "ack"

\* C20: the assumed-positive flag of a downlink record awaiting its
\* acknowledgment is true exactly when a non-final dl_ack_info was processed
\* in the current allocation and the outcome chosen after the last of them is
\* a positive ack (the outcome of the best report, ties of quality-less
\* reports aside); it is false for a record without a report, whatever an
\* earlier allocation of the array slot left, and for every uplink record; the
\* notifier gets that flag when the record times out.
C20_AssumedPositiveFlag ==
  /\ [](\A i \in RefIdx :
          /\ dl.harqs[i].status = "waiting_ack"
               => /\ dl.harqs[i].ack_on_timeout = AssumedPositive(i)
                  /\ reports[i] = <<>> => ~ dl.harqs[i].ack_on_timeout
                  /\ ~ QualityTie(reports[i])
                       => ((dl.harqs[i].chosen_ack = "ack") = (Decision(reports[i]) = "acked"))
          /\ ~ ul.harqs[i].ack_on_timeout)
  /\ [][SlotStep =>
         /\ \A i \in Due(1) :
              Occurrences(notifs', <<dl.harqs[i].ue_idx, TRUE, AssumedPositive(i)>>) >= 1
         /\ \A k \in 1 .. Len(notifs') :
              /\ ~ notifs'[k][2] => ~ notifs'[k][3]
              /\ notifs'[k][2] =>
                   \E i \in Due(1) : /\ dl.harqs[i].ue_idx = notifs'[k][1]
                                      /\ notifs'[k][3] = AssumedPositive(i)]_vars

\* The second allocation of an array slot has timed out after a non-final
\* positive report and the notifier was told to assume a positive ack.
C20_Witness ==
  /\ notifs = <<<<0, TRUE, TRUE>>>>
  /\ \E i \in RefIdx : Recycled(dl, i) /\ Reused(dl, i)

\* ------------------------------------------- base_blocking_queue: claims
\* The threads that are inside a wait of a condition variable of the pair s.
Blocked(s) ==
  {t \in Threads : s.thr[t].pc \in {"wait_full", "woken_full", "wait_empty", "woken_empty"}}

\* C21: try_push returns failure and leaves the queue as it is when the queue
\* is full or stopped, and appends the value otherwise; try_pop returns false
\* and leaves the queue as it is when the queue is empty or stopped, and takes
\* the front value otherwise; neither waits on a condition variable.
C21_NonBlockingApi ==
  \A t \in Threads :
    threads[t].pc = "idle" =>
      /\ \A x \in Elems :
           \A n \in push_locked(Calls(t, "push", FALSE, <<x>>, 0), t) :
             /\ n.thr[t].pc = "idle"
             /\ Blocked(n) = Blocked(Now)
             /\ n.q.nof_waiting = queue.nof_waiting
             /\ IF full(queue) \/ ~ queue.active
                THEN ~ n.thr[t].ok /\ n.q = queue
                ELSE n.thr[t].ok /\ n.q.circ_buffer = Append(queue.circ_buffer, x)
      /\ \A n \in pop_locked(Calls(t, "pop", FALSE, <<>>, 0), t) :
           /\ n.thr[t].pc = "idle"
           /\ Blocked(n) = Blocked(Now)
           /\ n.q.nof_waiting = queue.nof_waiting
           /\ IF empty(queue) \/ ~ queue.active
              THEN ~ n.thr[t].ok /\ n.q = queue /\ n.thr[t].out = <<>>
              ELSE /\ n.thr[t].ok
                   /\ n.q.circ_buffer = Tail(queue.circ_buffer)
                   /\ n.thr[t].out = <<Head(queue.circ_buffer)>>

\* A try_push has failed, the queue is stopped, and a try_pop has taken a value.
C21_Witness ==
  /\ ~ queue.active
  /\ \E t, u \in Threads :
       /\ threads[t].pc = "idle" /\ threads[t].op = "push"
       /\ ~ threads[t].block_mode /\ ~ threads[t].ok
       /\ threads[u].pc = "idle" /\ threads[u].op = "pop"
       /\ ~ threads[u].block_mode /\ threads[u].ok

\* C22: stop() terminates; when the call that stopped the queue returns, the
\* queue is inactive and empty and no thread is inside a wait; a thread that
\* was inside a wait when the queue was stopped returns failure; a push or a
\* pop started after the stop returns failure without waiting.
C22_Stop ==
  /\ \A t \in Threads :
       (threads[t].pc \in {"stop_notify", "stop_lock"}) ~> (threads[t].pc = "idle")
  /\ [][\A t \in Threads :
          /\ threads[t].pc = "stop_lock" /\ threads'[t].pc = "idle"
               => /\ ~ queue'.active
                  /\ empty(queue')
                  /\ Blocked([q |-> queue', thr |-> threads']) = {}
          /\ (/\ threads[t].pc \in {"woken_full", "woken_empty"}
              /\ ~ queue.active
              /\ threads'[t].pc = "idle")
               => /\ ~ threads'[t].ok
                  /\ threads'[t].count = threads[t].count
                  /\ queue'.circ_buffer = queue.circ_buffer]_vars
  /\ [](\A t \in Threads :
          threads[t].pc = "idle" /\ ~ queue.active =>
            \A x \in Elems, block \in BOOLEAN :
              /\ \A n \in push_locked(Calls(t, "push", block, <<x>>, 0), t) :
                   n.thr[t].pc = "idle" /\ ~ n.thr[t].ok /\ n.q = queue
              /\ \A n \in pop_locked(Calls(t, "pop", block, <<>>, 0), t) :
                   n.thr[t].pc = "idle" /\ ~ n.thr[t].ok /\ n.q = queue)

\* C23: on an active queue a thread blocked in push_blocking does not stay
\* blocked for ever while the queue has a free place.
C23_NoLostWakeupOfPushers ==
  \A t \in Threads :
    []<>(~ (threads[t].pc = "wait_full" /\ queue.active /\ ~ full(queue)))

\* C24: on an active queue a thread blocked in pop_blocking does not stay
\* blocked for ever while the queue holds a value.
C24_NoLostWakeupOfPoppers ==
  \A t \in Threads :
    []<>(~ (threads[t].pc = "wait_empty" /\ queue.active /\ ~ empty(queue)))

\* C25: the calls of the pushing callable less the calls of the popping
\* callable are the number of values stored.
C25_CallbackBalance == queue.gauge = Len(queue.circ_buffer)

\* ------------------------------------------------------ timeout wheel
\* C26: slot_indication(slot) times out every record queued in the bucket of
\* the slot: after the call the bucket is empty in both directions, every
\* record that was in it is empty, and the handler ran once per record (one
\* notifier call each, the wait being 2).
C26_WholeBucketTimedOut ==
  [][SlotStep =>
       /\ \A d \in 1 .. 2 :
            /\ Repos[d]'.harq_timeout_wheel[wheel_idx(next_slot)] = <<>>
            /\ \A i \in Due(d) : Repos[d]'.harqs[i].status = "empty"
       /\ Len(notifs') = Cardinality(Due(1)) + Cardinality(Due(2))]_vars

\* C27: with a wait below the ring size and one slot_indication per
\* consecutive slot, a slot_indication call times out a waiting_ack record
\* only when its slot is the record's slot_ack_timeout, never in an earlier
\* slot that maps to the same bucket.
C27_NoEarlyTimeout ==
  [][SlotStep =>
       \A d \in 1 .. 2 : \A i \in RefIdx :
         (/\ max_ack_wait_in_slots < RING_SIZE
          /\ Repos[d].harqs[i].status = "waiting_ack"
          /\ Repos[d]'.harqs[i].status = "empty")
           => Repos[d].harqs[i].slot_ack_timeout = last_sl_tx']_vars

\* ----------------------------------------------------------- handle_ack

\* C28: handle_ack on a waiting_ack record: a positive result makes the record
\* empty; a negative result makes it empty when nof_retxs >= max_nof_harq_retxs
\* and otherwise makes it pending_retx, out of every timeout-wheel bucket and
\* in the pending-retransmission list once, with its owner, process_id, array
\* slot and NDI as before.
C28_HandleAck ==
  \A d \in 1 .. 2 : \A i \in RefIdx :
    LET r == Repos[d]
        h == r.harqs[i]
        acked == handle_ack(r, i, TRUE)
        nacked == handle_ack(r, i, FALSE)
    IN h.status = "waiting_ack" =>
         /\ acked.harqs[i].status = "empty"
         /\ IF h.nof_retxs >= h.max_nof_harq_retxs
            THEN nacked.harqs[i].status = "empty"
            ELSE /\ nacked.harqs[i].status = "pending_retx"
                 /\ InWheel(nacked, i) = {}
                 /\ Occurrences(nacked.harq_pending_retx_list, i) = 1
                 /\ nacked.harqs[i].ue_idx = h.ue_idx
                 /\ nacked.harqs[i].h_id = h.h_id
                 /\ nacked.harqs[i].ndi = h.ndi
                 /\ nacked.ues[h.ue_idx].harqs[h.h_id] = i
                 /\ nacked.ues = r.ues
                 /\ nacked.free_harqs = r.free_harqs

\* A negative acknowledgment has made one downlink record pending while
\* another one, with its retransmissions cancelled, waits for its report.
C28_Witness ==
  \E i, j \in RefIdx :
    /\ dl.harqs[i].status = "pending_retx"
    /\ dl.harqs[i].nof_retxs < dl.harqs[i].max_nof_harq_retxs
    /\ dl.harqs[j].status = "waiting_ack"
    /\ dl.harqs[j].nof_retxs >= dl.harqs[j].max_nof_harq_retxs

\* --------------------------------------------------------- cancel_retxs

\* C29: cancel_retxs on a non-empty record sets max_nof_harq_retxs to
\* nof_retxs and sets retxs_cancelled, and leaves the status, the free lists,
\* the timeout wheel and the pending-retransmission list as they are; the next
\* unsuccessful acknowledgment handled for the record deallocates it. On an
\* empty record cancel_retxs changes nothing.
C29_CancelRetxs ==
  \A d \in 1 .. 2 : \A i \in RefIdx :
    LET r == Repos[d]
        h == r.harqs[i]
        c == cancel_retxs(r, i)
    IN IF h.status = "empty"
       THEN c = r
       ELSE /\ c.harqs[i] = [h EXCEPT !.max_nof_harq_retxs = h.nof_retxs,
                                      !.retxs_cancelled = TRUE]
            /\ \A j \in RefIdx \ {i} : c.harqs[j] = r.harqs[j]
            /\ c.free_harqs = r.free_harqs
            /\ c.ues = r.ues
            /\ c.harq_timeout_wheel = r.harq_timeout_wheel
            /\ c.harq_pending_retx_list = r.harq_pending_retx_list
            /\ handle_ack(c, i, FALSE).harqs[i].status = "empty"
            /\ (d = 1 /\ h.status = "waiting_ack" /\ h.pucch_ack_to_receive <= 1) =>
                 \A a \in {"nack", "dtx"} :
                   dl_ack_info(c, i, a, nullopt, last_sl_tx).repo.harqs[i].status = "empty"
            /\ (d = 2 /\ h.status = "waiting_ack") =>
                 ul_crc_info(c, i, FALSE).repo.harqs[i].status = "empty"

\* The retransmissions of an uplink record that waits for its CRC have been
\* cancelled, and a downlink record that was handed out is empty again.
C29_Witness ==
  \E i, j \in RefIdx :
    /\ ul.harqs[i].status = "waiting_ack"
    /\ ul.harqs[i].retxs_cancelled
    /\ ul.harqs[i].max_nof_harq_retxs = ul.harqs[i].nof_retxs
    /\ HasView(dl, j)
    /\ dl.harqs[j].status = "empty"

\* ------------------------------------------------------ wheel placement

\* The record i of repository r lies in the bucket of its deadline, once, and
\* in no other bucket.
WellPlaced(r, i) ==
  /\ InWheel(r, i) = {wheel_idx(r.harqs[i].slot_ack_timeout)}
  /\ Occurrences(r.harq_timeout_wheel[wheel_idx(r.harqs[i].slot_ack_timeout)], i) = 1

\* C30: in every reachable state each waiting_ack record lies in the bucket
\* slot_ack_timeout mod ring size and in no other bucket. An allocation gives
\* its record the deadline slot_ack + max_ack_wait_in_slots and that bucket; a
\* non-final dl_ack_info gives the record the deadline (slot of the latest
\* slot_indication + SHORT_ACK_TIMEOUT_DTX) and moves it from its old bucket
\* to the bucket of the new deadline.
C30_WheelPlacement ==
  /\ \A d \in 1 .. 2 : \A i \in RefIdx :
       Repos[d].harqs[i].status = "waiting_ack" => WellPlaced(Repos[d], i)
  /\ \A i \in RefIdx :
       (dl.harqs[i].status = "waiting_ack" /\ dl.harqs[i].pucch_ack_to_receive > 1) =>
         \A a \in AckValues, q \in SnrSet :
           LET after == dl_ack_info(dl, i, a, q, last_sl_tx).repo IN
           /\ after.harqs[i].status = "waiting_ack"
           /\ after.harqs[i].slot_ack_timeout = last_sl_tx + SHORT_ACK_TIMEOUT_DTX
           /\ WellPlaced(after, i)
           /\ \A j \in RefIdx \ {i} : InWheel(after, j) = InWheel(dl, j)
  /\ \A u \in UeIdx, k1 \in 1 .. 2 :
       (ue_handle[u] /\ last_sl_tx # NoSlot) =>
         LET a == new_dl_tx(dl, u, last_sl_tx, k1, 1, 0, max_ack_wait_in_slots)
             b == new_ul_tx(ul, u, last_sl_tx, 1, max_ack_wait_in_slots)
         IN /\ a.h # nullptr =>
                 /\ a.repo.harqs[a.h].slot_ack_timeout
                      = a.repo.harqs[a.h].slot_ack + max_ack_wait_in_slots
                 /\ WellPlaced(a.repo, a.h)
            /\ b.h # nullptr =>
                 /\ b.repo.harqs[b.h].slot_ack_timeout
                      = b.repo.harqs[b.h].slot_ack + max_ack_wait_in_slots
                 /\ WellPlaced(b.repo, b.h)

\* One downlink record waits at the deadline of its allocation and another
\* one at the shortened deadline of a non-final report, in another bucket.
C30_Witness ==
  \E i, j \in RefIdx :
    /\ dl.harqs[i].status = "waiting_ack"
    /\ dl.harqs[i].slot_ack_timeout = dl.harqs[i].slot_ack + max_ack_wait_in_slots
    /\ dl.harqs[j].status = "waiting_ack"
    /\ dl.harqs[j].slot_ack_timeout # dl.harqs[j].slot_ack + max_ack_wait_in_slots
    /\ InWheel(dl, i) # InWheel(dl, j)

\* C31: the deadline that a non-final dl_ack_info sets is a shortened one:
\* whenever a non-final report is processed, the new slot_ack_timeout of the
\* record is not later than the slot_ack_timeout it had before the report.
C31_ShortenedDeadline ==
  \A i \in RefIdx :
    (dl.harqs[i].status = "waiting_ack" /\ dl.harqs[i].pucch_ack_to_receive > 1) =>
      \A a \in AckValues, q \in SnrSet :
        dl_ack_info(dl, i, a, q, last_sl_tx).repo.harqs[i].slot_ack_timeout
          <= dl.harqs[i].slot_ack_timeout

\* ----------------------------------------------------------- destroy_ue

\* C32: removal of an admitted terminal t releases all that t owns and nothing
\* else: afterwards no non-empty record has owner t, no wheel bucket and no
\* pending list holds a record that t owned, the process_id free list of t is
\* empty, and the records, index entries and process_id free lists of every
\* other terminal are as before.
C32_RemovalReleasesOwn ==
  \A d \in 1 .. 2 : \A t \in UeIdx :
    LET r == Repos[d]
        after == destroy_ue_harqs(r, t)
        owned == OwnedBy(r, t)
    IN ue_handle[t] =>
         /\ OwnedBy(after, t) = {}
         /\ \A i \in owned :
              /\ after.harqs[i].status = "empty"
              /\ Occurrences(after.free_harqs, i) = 1
         /\ \A b \in Buckets :
              after.harq_timeout_wheel[b]
                = SelectSeq(r.harq_timeout_wheel[b], LAMBDA x : x \notin owned)
         /\ after.harq_pending_retx_list
              = SelectSeq(r.harq_pending_retx_list, LAMBDA x : x \notin owned)
         /\ after.ues[t].free_harq_ids = <<>>
         /\ \A h_id \in HarqIds : after.ues[t].harqs[h_id] = INVALID_HARQ_REF_INDEX
         /\ \A v \in UeIdx \ {t} : after.ues[v] = r.ues[v]
         /\ \A j \in RefIdx \ owned :
              /\ after.harqs[j] = r.harqs[j]
              /\ Occurrences(after.free_harqs, j) = Occurrences(r.free_harqs, j)

\* A terminal was removed while one of its downlink records was pending a
\* retransmission, and the other terminal still holds a record.
C32_Witness ==
  \E t, v \in UeIdx : \E i, j \in RefIdx :
    /\ ~ ue_handle[t]
    /\ dl.harqs[i].ue_idx = t
    /\ Recycled(dl, i)
    /\ dl.harqs[i].chosen_ack = "nack"
    /\ ~ dl.harqs[i].retxs_cancelled
    /\ dl.ues[t].free_harq_ids = <<>>
    /\ v # t
    /\ ue_handle[v]
    /\ j \in OwnedBy(dl, v)

\* --------------------------------------------------- find_dl_harq, find_ul_harq

\* The downlink records of terminal u that wait for the report of slot sl and
\* occasion index b, and its uplink records that wait for the CRC of slot sl.
DlWaitingFor(u, sl, b) ==
  {i \in RefIdx : /\ dl.harqs[i].status = "waiting_ack"
                  /\ dl.harqs[i].ue_idx = u
                  /\ dl.harqs[i].slot_ack = sl
                  /\ dl.harqs[i].harq_bit_idx = b}

UlWaitingFor(u, sl) ==
  {i \in RefIdx : /\ ul.harqs[i].status = "waiting_ack"
                  /\ ul.harqs[i].ue_idx = u
                  /\ ul.harqs[i].slot_tx = sl}

\* C33: for the handle of an admitted terminal, find_dl_harq(slot, occasion
\* index) returns a view exactly when the terminal owns a downlink record in
\* waiting_ack with that slot_ack and that occasion index, and the view is of
\* such a record; find_ul_harq(slot) does the same with slot_tx. A record of
\* another terminal, a pending_retx record and an empty record are never returned.
C33_AckLookup ==
  \A u \in UeIdx : ue_handle[u] =>
    \A sl \in SlotsFind :
      /\ \A b \in BitsFind :
           LET v == find_dl_harq(dl, u, sl, b) IN
           IF DlWaitingFor(u, sl, b) = {}
           THEN v = nullopt
           ELSE v \in DlWaitingFor(u, sl, b)
      /\ LET v == find_ul_harq(ul, u, sl) IN
         IF UlWaitingFor(u, sl) = {}
         THEN v = nullopt
         ELSE v \in UlWaitingFor(u, sl)

\* A terminal holds two downlink records that wait for the same slot with
\* different occasion indexes, allocated in different slots, and the lookup of
\* the second occasion finds the record that the index table names second.
C33_Witness ==
  \E u, w \in UeIdx : \E i, j \in RefIdx :
    /\ u # w
    /\ ue_handle[u] /\ ue_handle[w]
    /\ i \in DlWaitingFor(u, dl.harqs[i].slot_ack, 0)
    /\ j \in DlWaitingFor(u, dl.harqs[i].slot_ack, 1)
    /\ dl.harqs[i].slot_tx # dl.harqs[j].slot_tx
    /\ find_dl_harq(dl, u, dl.harqs[i].slot_ack, 1) = j
    /\ find_dl_harq(dl, w, dl.harqs[i].slot_ack, 1) = nullopt

\* ---------------------------------------------------------- skipped slot

\* C34: a record whose deadline slot got no slot_indication call stays in
\* waiting_ack, in its bucket, through every later slot_indication call for a
\* slot that is not congruent to the deadline modulo the ring size, and the
\* first later call for a congruent slot times it out.
C34_SkippedSlot ==
  [][SlotStep =>
       \A d \in 1 .. 2 : \A i \in RefIdx :
         (/\ Repos[d].harqs[i].status = "waiting_ack"
          /\ Repos[d].harqs[i].slot_ack_timeout < last_sl_tx')
           => IF wheel_idx(last_sl_tx') = wheel_idx(Repos[d].harqs[i].slot_ack_timeout)
              THEN Repos[d]'.harqs[i].status = "empty"
              ELSE /\ Repos[d]'.harqs[i] = Repos[d].harqs[i]
                   /\ WellPlaced(Repos[d]', i)]_vars

\* -------------------------------------------------------------- SpecNdi
\* Two terminals that take turns on the array slots of the pool, with the
\* NDI of the latest allocation of each (terminal, process_id) kept.

\* The step allocates process h_id of terminal u in direction d.
Given(d, u, h_id) ==
  /\ Repos[d].ues[u].harqs[h_id] = INVALID_HARQ_REF_INDEX
  /\ Repos[d]'.ues[u].harqs[h_id] # INVALID_HARQ_REF_INDEX

\* The NDI of the record that the step gives to process h_id of terminal u.
NdiGiven(d, u, h_id) == Repos[d]'.harqs[Repos[d]'.ues[u].harqs[h_id]].ndi

\* alloc_harq, 'h.ndi = !h.ndi': the NDI the allocated process now carries.
RecordNdi ==
  last_ndi' = [d \in 1 .. 2 |-> [u \in UeIdx |-> [h_id \in HarqIds |->
                 IF Given(d, u, h_id) THEN {NdiGiven(d, u, h_id)} ELSE last_ndi[d][u][h_id]]]]

\* A new admission of terminal u: its processes have carried no NDI yet.
ForgetNdi(u) ==
  last_ndi' = [d \in 1 .. 2 |-> [last_ndi[d] EXCEPT ![u] = [h_id \in HarqIds |-> NoNdi]]]

InitNdi == InitWith({2})

NextNdi ==
  \/ SlotIndication /\ UNCHANGED <<reports, hvars, qvars, last_ndi>>
  \/ \E u \in UeIdx : AddUe(u, 1, 1) /\ ForgetNdi(u) /\ UNCHANGED <<reports, hvars, qvars>>
  \/ \E u \in UeIdx : Reset(u) /\ UNCHANGED <<reports, hvars, qvars, last_ndi>>
  \/ \E u \in UeIdx : AllocDlHarqUpTo(MaxAllocsNdi, u, 1, 1, 0) /\ RecordNdi /\ UNCHANGED <<reports, hvars, qvars>>
  \/ \E u \in UeIdx : AllocUlHarq(u, 1) /\ RecordNdi /\ UNCHANGED <<reports, hvars, qvars>>
  \/ \E i \in RefIdx, a \in AckValues : DlAckInfo(i, a, nullopt) /\ UNCHANGED <<reports, hvars, qvars, last_ndi>>

SpecNdi == InitNdi /\ [][NextNdi]_vars

\* C35: while a terminal stays admitted, two consecutive successful fresh
\* allocations that get the same process_id of it, in the same direction,
\* carry opposite NDI values, whatever was allocated and deallocated in between.
C35_NdiToggles ==
  [][\A d \in 1 .. 2 : \A u \in UeIdx : \A h_id \in HarqIds :
       (Given(d, u, h_id) /\ last_ndi[d][u][h_id] # NoNdi)
         => NdiGiven(d, u, h_id) \notin last_ndi[d][u][h_id]]_vars

\* ------------------------------------------------- process_id conservation

\* The budget that add_ue reserved for terminal u in direction d.
Budget(d, u) == IF d = 1 THEN reserved[u].dl ELSE reserved[u].ul

\* C36: while a terminal is admitted, in each direction the size of its
\* process_id free list plus the number of its non-empty records is its
\* reserved budget, the free list holds no duplicate and no process_id that is
\* in use, and every process_id, free or handed out, is in 0 .. budget - 1.
C36_ProcessIdConservation ==
  \A d \in 1 .. 2 : \A u \in UeIdx :
    LET r == Repos[d]
        free == r.ues[u].free_harq_ids
        used == {r.harqs[i].h_id : i \in OwnedBy(r, u)}
        a == alloc_harq(r, u, last_sl_tx, last_sl_tx, 1, max_ack_wait_in_slots)
    IN ue_handle[u] =>
         /\ Len(free) + Cardinality(OwnedBy(r, u)) = Budget(d, u)
         /\ NoDuplicates(free)
         /\ Cardinality(used) = Cardinality(OwnedBy(r, u))
         /\ SeqToSet(free) \cap used = {}
         /\ SeqToSet(free) \cup used = 0 .. (Budget(d, u) - 1)
         /\ a.h # nullptr =>
              /\ a.repo.harqs[a.h].h_id \in 0 .. (Budget(d, u) - 1)
              /\ a.repo.harqs[a.h].h_id = back(free)
              /\ a.repo.ues[u].free_harq_ids = pop_back(free)

\* A terminal with a budget of two downlink processes holds process 1 and
\* has got process 0 back.
C36_Witness ==
  \E u \in UeIdx : \E i, j \in RefIdx :
    /\ ue_handle[u]
    /\ reserved[u].dl = 2
    /\ dl.ues[u].free_harq_ids = <<0>>
    /\ i \in OwnedBy(dl, u) /\ dl.harqs[i].h_id = 1
    /\ Recycled(dl, j) /\ dl.harqs[j].ue_idx = u /\ dl.harqs[j].h_id = 0

\* ----------------------------------------------- timeouts after a removal

\* C37: no slot_indication calls the timeout notifier for a record that a
\* removed terminal held: every record queued in the timeout wheel is in
\* waiting_ack and owned by a terminal that is admitted (the removal took the
\* records of the terminal out of the wheel, so a queued record of a terminal
\* stems from its current admission), and every call of the notifier names
\* the owner of a record due in that call.
C37_NoTimeoutAfterRemoval ==
  /\ [](\A d \in 1 .. 2 : \A b \in Buckets :
          \A k \in 1 .. Len(Repos[d].harq_timeout_wheel[b]) :
            LET h == Repos[d].harqs[Repos[d].harq_timeout_wheel[b][k]] IN
            /\ h.status = "waiting_ack"
            /\ ue_handle[h.ue_idx])
  /\ [][SlotStep =>
          \A k \in 1 .. Len(notifs') :
            /\ ue_handle[notifs'[k][1]]
            /\ Occurrences(notifs', notifs'[k]) <= DueCalls(notifs'[k])]_vars

\* A slot_indication has just timed out the downlink record of one terminal;
\* the record of a removed terminal with the same deadline, which no report
\* had released, was not notified.
C37_Witness ==
  \E t, w \in UeIdx : \E i \in RefIdx :
    /\ t # w
    /\ ~ ue_handle[t]
    /\ Recycled(dl, i)
    /\ dl.harqs[i].ue_idx = t
    /\ dl.harqs[i].chosen_ack = "dtx"
    /\ dl.harqs[i].slot_ack_timeout = last_sl_tx
    /\ notifs = <<<<w, TRUE, FALSE>>>>

\* ------------------------------------------------- pending_retx records

\* C38: slot_indication never touches a record in pending_retx: the call
\* leaves the record as it is, in the pending-retransmission list and in no
\* bucket, and calls the notifier only for records that were due; and of all
\* the operations a record leaves pending_retx only by the removal of its
\* terminal, which makes it empty.
C38_PendingUntouched ==
  [][\A d \in 1 .. 2 : \A i \in RefIdx :
       Repos[d].harqs[i].status = "pending_retx" =>
         /\ SlotStep =>
              /\ Repos[d]'.harqs[i] = Repos[d].harqs[i]
              /\ Repos[d]'.harq_pending_retx_list = Repos[d].harq_pending_retx_list
              /\ Occurrences(Repos[d]'.harq_pending_retx_list, i) = 1
              /\ InWheel(Repos[d]', i) = {}
              /\ \A k \in 1 .. Len(notifs') :
                   Occurrences(notifs', notifs'[k]) <= DueCalls(notifs'[k])
         /\ Repos[d]'.harqs[i].status # "pending_retx" =>
              /\ Repos[d]'.harqs[i].status = "empty"
              /\ ue_handle[Repos[d].harqs[i].ue_idx]
              /\ ~ ue_handle'[Repos[d].harqs[i].ue_idx]]_vars

\* A downlink record is still pending after the slot_indication call of the
\* deadline it had while it waited, with its terminal admitted.
C38_Witness ==
  \E i \in RefIdx :
    /\ dl.harqs[i].status = "pending_retx"
    /\ dl.harqs[i].slot_ack_timeout <= last_sl_tx
    /\ ue_handle[dl.harqs[i].ue_idx]
    /\ Occurrences(dl.harq_pending_retx_list, i) = 1

\* ------------------------------------------------ direction independence

\* C39: alloc_dl_harq, dl_ack_info and cancel_retxs of a downlink record
\* leave the whole uplink repository as it is, and alloc_ul_harq, ul_crc_info
\* and cancel_retxs of an uplink record leave the whole downlink repository as
\* it is: a step changes both repositories only if it is a slot_indication, an
\* add_ue or the removal of a terminal.
C39_DirectionIndependence ==
  [][/\ (dl' # dl /\ ul' # ul) => (SlotStep \/ ue_handle' # ue_handle)
     /\ (nof_allocs' # nof_allocs \/ nof_cancels' # nof_cancels) => (dl' = dl \/ ul' = ul)
     /\ ue_handle' # ue_handle => (dl' # dl /\ ul' # ul)]_vars

\* One terminal has a downlink record pending, with its retransmissions
\* cancelled, while its uplink record still waits for the CRC.
C39_Witness ==
  \E u \in UeIdx : \E i, j \in RefIdx :
    /\ ue_handle[u]
    /\ dl.harqs[i].status = "pending_retx"
    /\ dl.harqs[i].ue_idx = u
    /\ dl.harqs[i].retxs_cancelled
    /\ ul.harqs[j].status = "waiting_ack"
    /\ ul.harqs[j].ue_idx = u
    /\ ~ ul.harqs[j].retxs_cancelled

\* ------------------------------------------------- order of the blocking queue
\* The calls thread t may enter: a push or a pop of one value or of a range,
\* blocking or not, and clear().
CallsOf(t) ==
  {Calls(t, "push", block_mode, <<x>>, 0) : x \in Elems, block_mode \in BOOLEAN}
    \cup {Calls(t, "push_range", block_mode, xs, 0) : xs \in Ranges, block_mode \in BOOLEAN}
    \cup {Calls(t, "pop", block, <<>>, 0) : block \in BOOLEAN}
    \cup {Calls(t, "pop_range", block, <<>>, n) : n \in 1 .. MaxRange, block \in BOOLEAN}
    \cup {Calls(t, "clear", FALSE, <<>>, 0)}

\* The critical sections thread t may run next, as pairs of the state before
\* (the call entered) and a state after: the first one of a call it enters, or
\* the next one of the push, pop or clear() it is inside.
SectionsOf(t) ==
  CASE threads[t].pc = "idle" ->
         UNION {{<<b, a>> : a \in IF b.thr[t].op \in {"push", "push_range"}
                                    THEN push_locked(b, t) ELSE pop_locked(b, t)} :
                  b \in CallsOf(t)}
    [] threads[t].pc = "woken_full" -> {<<Now, a>> : a \in push_woken(Now, t)}
    [] threads[t].pc = "woken_empty" -> {<<Now, a>> : a \in pop_woken(Now, t)}
    [] threads[t].pc = "push_range" -> {<<Now, a>> : a \in push_locked(Now, t)}
    [] threads[t].pc \in {"pop_range", "clear"} -> {<<Now, a>> : a \in pop_locked(Now, t)}
    [] OTHER -> {}

\* The values the critical section from b to a of thread t put in the queue:
\* the value of a push that returns success, the values a range push counts.
PushedBy(t, b, a) ==
  CASE b.thr[t].op = "push" -> IF a.thr[t].ok THEN b.thr[t].items ELSE <<>>
    [] b.thr[t].op = "push_range" ->
         SubSeq(b.thr[t].items, 1, a.thr[t].count - b.thr[t].count)
    [] OTHER -> <<>>

\* The values the critical section from b to a handed to thread t.
PoppedBy(t, b, a) == SubSeq(a.thr[t].out, Len(b.thr[t].out) + 1, Len(a.thr[t].out))

\* C40: under any interleaving of pushes and pops the queue never holds more
\* than max_size values, and every critical section of a push, a pop or a
\* clear() takes the values it hands out from the front of the queue, in
\* their order and to the calling thread only, and puts the values it accepts
\* at the back, in their order: no value is handed out twice, none is lost,
\* and values leave in the order in which they were pushed (FIFO); a try_pop
\* or pop_blocking returns success for exactly one value, and a range call
\* counts the values it moved.
C40_FifoAndBound ==
  /\ Len(queue.circ_buffer) <= QueueSize
  /\ \A t \in Threads :
       \A p \in SectionsOf(t) :
         LET b == p[1]
             a == p[2]
             op == b.thr[t].op
             pushed == PushedBy(t, b, a)
             popped == PoppedBy(t, b, a)
         IN /\ Len(a.q.circ_buffer) <= QueueSize
            /\ popped \o a.q.circ_buffer = b.q.circ_buffer \o pushed
            /\ Len(b.thr[t].out) <= Len(a.thr[t].out)
            /\ SubSeq(a.thr[t].out, 1, Len(b.thr[t].out)) = b.thr[t].out
            /\ op \in {"push", "push_range"} => popped = <<>>
            /\ op = "pop" => Len(popped) = (IF a.thr[t].ok THEN 1 ELSE 0)
            /\ op \in {"pop_range", "push_range"} =>
                 a.thr[t].count - b.thr[t].count = Len(popped) + Len(pushed)
            /\ \A u \in Threads \ {t} :
                 /\ a.thr[u].out = b.thr[u].out
                 /\ a.thr[u].items = b.thr[u].items
                 /\ a.thr[u].count = b.thr[u].count

\* A range push put the values 1 and 2 in the queue, and two other threads
\* each popped one of them: the first pop got 1 and left 2 for the second.
C40_Witness ==
  /\ queue.active
  /\ queue.circ_buffer = <<>>
  /\ \E t, u, w \in Threads :
       /\ threads[w].pc = "idle" /\ threads[w].op = "push_range" /\ threads[w].count = 2
       /\ threads[t].pc = "idle" /\ threads[t].op = "pop" /\ threads[t].out = <<1>>
       /\ threads[u].pc = "idle" /\ threads[u].op = "pop" /\ threads[u].out = <<2>>
       /\ threads[t].block_mode

====
